---------------------------- MODULE Spec2Model ----------------------------
(***************************************************************************)
(* Model of the striped file I/O engine of radosfs (src/src/FileIO.cc,     *)
(* src/src/FileInode.cc): a file is a sequence of stripe objects in an     *)
(* object pool, its size an omap entry of the base object, its writers     *)
(* coordinated by an advisory lock of the base object.                     *)
(***************************************************************************)
EXTENDS Integers, Sequences, FiniteSets, TLC

(***************************************************************************)
(* Bounds of the model.                                                    *)
(***************************************************************************)
\* mPool->size: the largest file the data pool accepts, in bytes
PoolSize == 5
\* longest buffer a caller hands to write/writeSync
MaxWriteLen == 4
\* most operations the op manager holds before a caller syncs
MaxOps == 2
\* most calls a client makes in one behaviour
MaxCalls == 3
\* most calls the step-by-step specifications start in one behaviour
MaxRuns == 2
\* the clock stops at MaxTime
MaxTime == 6
\* most threads that call sync(opId) in one behaviour
MaxWaiters == 2

\* stripe sizes an engine instance is constructed with
StripeSizes == {2, 3}
\* capacities of the inline buffer; 0: no inline buffer is bound
InlineCaps == {0, 2}
\* the pools and instances: stripe (mStripeSize), align
\* (mPool->hasAlignment()), cap (inline capacity)
Configs ==
  {c \in [stripe : StripeSizes, align : BOOLEAN, cap : InlineCaps] :
     c.stripe = 2 => (~c.align /\ c.cap = 0)}
\* the buffers a caller writes: of every length up to n, the two that
\* alternate the bytes 1 and 2; 0 is the zero byte of holes and padding
Payloads(n) == {[i \in 1..k |-> ((i + b) % 2) + 1] : k \in 0..n, b \in {0, 1}}
\* bytes a caller's read buffer may hold before the call, and bytes the
\* heap may hold beyond a string
FillBytes == {3}

(***************************************************************************)
(* errno values the code returns negated.                                  *)
(***************************************************************************)
ENOENT == 2
EINVAL == 22
EFBIG == 27
EOVERFLOW == 75
ECANCELED == 125
EBUSY == 16
EEXIST == 17

Min(a, b) == IF a < b THEN a ELSE b
Max(a, b) == IF a < b THEN b ELSE a

Zeros(n) == [i \in 1..n |-> 0]

\* memcpy/memset into a buffer: base with data placed at 0-based position off
\* (the buffer is long enough)
Poke(base, off, data) ==
  [i \in 1..Len(base) |->
     IF i > off /\ i <= off + Len(data) THEN data[i - off] ELSE base[i]]

(***************************************************************************)
(* The object store (librados): an object is absent or a byte sequence.    *)
(***************************************************************************)
NoObj == <<-1>>

\* write(off, data): creates the object, zero-fills a gap before off
ObjWrite(obj, off, data) ==
  LET old == IF obj = NoObj THEN <<>> ELSE obj
      n   == Max(Len(old), off + Len(data))
  IN  [i \in 1..n |->
         IF i > off /\ i <= off + Len(data) THEN data[i - off]
         ELSE IF i <= Len(old) THEN old[i] ELSE 0]

\* truncate(n) with assert_exists(): fails (nothing changes) on an absent object
ObjTruncate(obj, n) ==
  IF obj = NoObj THEN NoObj
  ELSE IF n <= Len(obj) THEN SubSeq(obj, 1, n)
  ELSE obj \o Zeros(n - Len(obj))

\* write(off, data) with assert_exists()
ObjWriteExisting(obj, off, data) ==
  IF obj = NoObj THEN NoObj ELSE ObjWrite(obj, off, data)

\* ioctx.read(obj, bl, length, off): the bytes the object holds in
\* [off, off+length), or -ENOENT
ObjRead(obj, length, off) ==
  IF obj = NoObj THEN [ret |-> -ENOENT, data |-> <<>>]
  ELSE LET d == SubSeq(obj, off + 1, Min(Len(obj), off + length))
       IN  [ret |-> Len(d), data |-> d]


(***************************************************************************)
(* The file size: omap entry file_size of the base object, a fixed-width   *)
(* lowercase hex string.  A string is modelled as the sequence of its      *)
(* digit values: '0'..'9' < 'a'..'f' in the byte order the store compares. *)
(***************************************************************************)
\* XATTR_FILE_SIZE_LENGTH: digits of the encoded size
FileSizeHexWidth == 2

RECURSIVE HexDigits(_, _)
HexDigits(n, w) ==
  IF w = 0 THEN <<>> ELSE Append(HexDigits(n \div 16, w - 1), n % 16)

\* fileSizeToHex: zero-padded to the fixed width
fileSizeToHex(size) == HexDigits(size, FileSizeHexWidth)

\* strtoul(str, 0, 16)
RECURSIVE HexToSize(_)
HexToSize(str) ==
  IF str = <<>> THEN 0
  ELSE 16 * HexToSize(SubSeq(str, 1, Len(str) - 1)) + str[Len(str)]

\* byte-wise order of two values of the store; a prefix is smaller
LexLess(a, b) ==
  \/ /\ Len(a) < Len(b)
     /\ \A i \in 1..Len(a) : a[i] = b[i]
  \/ \E k \in 1..Min(Len(a), Len(b)) :
       /\ a[k] < b[k]
       /\ \A i \in 1..(k - 1) : a[i] = b[i]

\* the object of stripe idx (makeFileStripeName: index 0 is the base object)
StripeAt(stripes, idx) ==
  IF idx \in DOMAIN stripes THEN stripes[idx] ELSE NoObj

\* getLastStripeIndexAndSize(&size): sizeIn is what the caller's variable
\* held before the call; it is left alone when the lookup fails
getLastStripeIndexAndSize(stripes, sizeAttr, s, sizeIn) ==
  IF stripes[0] = NoObj THEN [ret |-> -ENOENT, size |-> sizeIn]
  ELSE LET fileSize == IF sizeAttr # <<>> THEN HexToSize(sizeAttr) ELSE 0
       IN  [ret  |-> IF fileSize > 0 THEN (fileSize - 1) \div s ELSE 0,
            size |-> fileSize]

\* getSize()
getSize(stripes, sizeAttr, s) ==
  getLastStripeIndexAndSize(stripes, sizeAttr, s, 0).size

\* setSizeIfBigger with the comparison left out: the size is always set
setSizeIfBiggerUnconditional(stripes, sizeAttr, size) ==
  [ret      |-> 0,
   stripes  |-> [stripes EXCEPT ![0] = IF @ = NoObj THEN <<>> ELSE @],
   sizeAttr |-> fileSizeToHex(size)]

\* setSizeIfBigger with the comparison turned round (GT for LT)
setSizeIfBiggerReversed(stripes, sizeAttr, size) ==
  LET sizeHex == fileSizeToHex(size)
  IN  IF LexLess(sizeHex, sizeAttr)
      THEN [ret      |-> 0,
            stripes  |-> [stripes EXCEPT ![0] = IF @ = NoObj THEN <<>> ELSE @],
            sizeAttr |-> sizeHex]
      ELSE [ret |-> -ECANCELED, stripes |-> stripes, sizeAttr |-> sizeAttr]

\* setSizeIfBigger(size): omap_set guarded by omap_cmp(file_size < hex(size))
setSizeIfBigger(stripes, sizeAttr, size) ==
  LET sizeHex == fileSizeToHex(size)
  IN  IF LexLess(sizeAttr, sizeHex)
      THEN [ret      |-> 0,
            stripes  |-> [stripes EXCEPT ![0] = IF @ = NoObj THEN <<>> ELSE @],
            sizeAttr |-> sizeHex]
      ELSE [ret |-> -ECANCELED, stripes |-> stripes, sizeAttr |-> sizeAttr]

\* setSize(size): create(false) + omap_set, unconditional
setSize(stripes, sizeAttr, size) ==
  [ret      |-> 0,
   stripes  |-> [stripes EXCEPT ![0] = IF @ = NoObj THEN <<>> ELSE @],
   sizeAttr |-> fileSizeToHex(size)]

(***************************************************************************)
(* The inline buffer (FileInlineBuffer): the leading bytes of the file,    *)
(* kept in the parent directory's index entry.                             *)
(***************************************************************************)
\* write(buff, offset, blen) for offset < capacity: places the bytes of
\* [offset, offset+blen) that lie below the capacity and returns their count;
\* a write that ends beyond the capacity leaves the buffer padded to it
InlineWrite(contents, cap, buff, offset) ==
  LET written == Min(Len(buff), cap - offset)
      placed  == ObjWrite(contents, offset, SubSeq(buff, 1, written))
  IN  [ret      |-> written,
       contents |-> IF offset + Len(buff) > cap
                    THEN placed \o Zeros(cap - Len(placed))
                    ELSE placed]

\* fillRemainingInlineBuffer(): zero-pads the contents to the capacity
InlineFillRemaining(contents, cap) ==
  [ret |-> 0, contents |-> contents \o Zeros(cap - Len(contents))]

\* truncate(newSize)
InlineTruncate(contents, newSize) ==
  SubSeq(contents, 1, Min(newSize, Len(contents)))

(***************************************************************************)
(* FileIO::read                                                            *)
(***************************************************************************)
\* (size_t) ret of a negative int: TLC's integers are narrower than size_t,
\* so the wrap-around is to 2^30, far above every length of the model
AsSizeT(x) == IF x < 0 THEN x + 2^30 ELSE x

\* the bytes memcpy takes from contentsStr.c_str() + offset: the string's
\* bytes, its terminating NUL, and beyond it whatever the heap holds (oob)
InlineBytes(contents, offset, n, oob) ==
  [i \in 1..n |->
     IF offset + i <= Len(contents) THEN contents[offset + i]
     ELSE IF offset + i = Len(contents) + 1 THEN 0
     ELSE oob]

\* the number of bytes read takes from the inline buffer (lines 76-83): none
\* without an inline buffer or from the capacity on, else the smaller of blen
\* and the length of the inline contents, whatever the offset
readInlineCount(contents, cap, blen, offset) ==
  IF cap > 0 /\ offset < cap THEN Min(blen, Len(contents)) ELSE 0

\* the stripe loop of read (lines 116-163); r holds the loop's variables:
\* buf (the caller's whole buffer), bpos (where buff points into it),
\* bytesToRead, currentOffset, bytesRead
RECURSIVE ReadStripes(_, _, _, _, _)
ReadStripes(stripes, s, offset, blen, r) ==
  IF r.bytesToRead <= 0 THEN [ret |-> r.bytesRead, buf |-> r.buf]
  ELSE
    LET idx    == (blen - r.bytesToRead + offset) \div s
        length == Min(s - r.currentOffset, r.bytesToRead)
        rd     == ObjRead(StripeAt(stripes, idx), length, r.currentOffset)
        copied == IF rd.ret > 0 THEN Poke(r.buf, r.bpos, rd.data) ELSE r.buf
        short  == AsSizeT(rd.ret) < length
        failed == short /\ rd.ret < 0 /\ rd.ret # -ENOENT
        ret    == IF short /\ rd.ret = -ENOENT THEN 0 ELSE rd.ret
        filled == IF short
                  THEN Poke(copied, r.bpos + ret, Zeros(length - ret))
                  ELSE copied
        bytesRead == r.bytesRead + length
    IN  IF failed THEN [ret |-> rd.ret, buf |-> copied]
        ELSE IF r.bytesToRead < s THEN [ret |-> bytesRead, buf |-> filled]
        ELSE ReadStripes(stripes, s, offset, blen,
                         [buf           |-> filled,
                          bpos          |-> r.bpos + length,
                          bytesToRead   |-> r.bytesToRead - length,
                          currentOffset |-> 0,
                          bytesRead     |-> bytesRead])

\* read with the size check made on the offset alone
readOffsetOnly(stripes, sizeAttr, contents, s, cap, buff, offset, oob) ==
  LET blen0 == Len(buff)
  IN
  IF blen0 = 0 THEN [ret |-> -EINVAL, buf |-> buff]
  ELSE
    LET inl   == cap > 0 /\ offset < cap
        iret  == readInlineCount(contents, cap, blen0, offset)
        buf1  == IF iret > 0
                 THEN Poke(buff, 0, InlineBytes(contents, offset, iret, oob))
                 ELSE buff
        off1  == offset + iret
        blen1 == blen0 - iret
        last  == getLastStripeIndexAndSize(stripes, sizeAttr, s, 0)
    IN  IF inl /\ blen1 = 0 THEN [ret |-> iret, buf |-> buf1]
        ELSE IF last.ret < 0 THEN [ret |-> last.ret, buf |-> buf1]
        ELSE IF off1 > last.size THEN [ret |-> -EOVERFLOW, buf |-> buf1]
        ELSE ReadStripes(stripes, s, off1, blen1,
                         [buf           |-> buf1,
                          bpos          |-> iret,
                          bytesToRead   |-> blen1,
                          currentOffset |-> off1 % s,
                          bytesRead     |-> iret])

\* read(buff, offset, blen) after mOpManager.sync(): the value returned and
\* the caller's buffer afterwards.  buff is the buffer before the call
\* (blen = Len(buff)), contents the inline contents, cap the inline capacity
read(stripes, sizeAttr, contents, s, cap, buff, offset, oob) ==
  LET blen0 == Len(buff)
  IN
  IF blen0 = 0 THEN [ret |-> -EINVAL, buf |-> buff]
  ELSE
    LET inl   == cap > 0 /\ offset < cap
        iret  == readInlineCount(contents, cap, blen0, offset)
        buf1  == IF iret > 0
                 THEN Poke(buff, 0, InlineBytes(contents, offset, iret, oob))
                 ELSE buff
        off1  == offset + iret
        blen1 == blen0 - iret
        last  == getLastStripeIndexAndSize(stripes, sizeAttr, s, 0)
    IN  IF inl /\ blen1 = 0 THEN [ret |-> iret, buf |-> buf1]
        ELSE IF last.ret < 0 THEN [ret |-> last.ret, buf |-> buf1]
        ELSE IF off1 + blen1 > last.size THEN [ret |-> -EOVERFLOW, buf |-> buf1]
        ELSE ReadStripes(stripes, s, off1, blen1,
                         [buf           |-> buf1,
                          bpos          |-> iret,
                          bytesToRead   |-> blen1,
                          currentOffset |-> off1 % s,
                          bytesRead     |-> iret])

(***************************************************************************)
(* FileIO::realWrite, FileIO::truncate, FileIO::remove: what they do to    *)
(* the stripe objects.                                                     *)
(***************************************************************************)
\* the write operation realWrite builds for one stripe (lines 406-423): the
\* slice of buff that starts blen - bytesToWrite bytes in, zero-padded by
\* stripeSize - length when the pool has an alignment
stripeWriteOp(s, align, buff, currentOffset, bytesToWrite) ==
  LET length == Min(s - currentOffset, bytesToWrite)
      start  == Len(buff) - bytesToWrite
      slice  == SubSeq(buff, start + 1, start + length)
  IN  [length   |-> length,
       contents |-> IF align /\ s - length > 0
                    THEN slice \o Zeros(s - length)
                    ELSE slice]

\* the stripe loop of realWrite (lines 399-439) with every completion
\* finalized; w holds i, currentOffset, bytesToWrite and the stripe objects
RECURSIVE WriteStripes(_, _, _, _, _, _)
WriteStripes(s, align, buff, firstStripe, totalStripes, w) ==
  IF w.i >= totalStripes THEN w.stripes
  ELSE
    LET op == stripeWriteOp(s, align, buff, w.currentOffset, w.bytesToWrite)
    IN  WriteStripes(s, align, buff, firstStripe, totalStripes,
          [i             |-> w.i + 1,
           currentOffset |-> 0,
           bytesToWrite  |-> w.bytesToWrite - op.length,
           stripes       |-> [w.stripes EXCEPT ![firstStripe + w.i] =
                                ObjWrite(@, w.currentOffset, op.contents)]])

\* the inline part of realWrite (lines 346-376): what the inline buffer
\* absorbs (taken) and holds afterwards
realWriteInline(contents, cap, buff, offset) ==
  IF cap > 0
  THEN IF offset < cap
       THEN LET r == InlineWrite(contents, cap, buff, offset)
            IN  [opResult |-> r.ret, taken |-> r.ret, contents |-> r.contents]
       ELSE LET r == InlineFillRemaining(contents, cap)
            IN  [opResult |-> r.ret, taken |-> 0, contents |-> r.contents]
  ELSE [opResult |-> 0, taken |-> 0, contents |-> contents]

\* number of stripes a write of blen > 0 bytes at offset touches
TotalStripes(s, offset, blen) ==
  ((offset + blen - 1) \div s) - (offset \div s) + 1

\* truncateStripeOp with the removal of the stripes above the new last one
\* left out
truncateStripeOpNoRemove(obj, s, align, newLastStripeSize, i) ==
  IF i = 0
  THEN IF align
       THEN ObjWriteExisting(obj, newLastStripeSize,
                             Zeros(s - newLastStripeSize))
       ELSE ObjTruncate(obj, newLastStripeSize)
  ELSE obj

\* the stripe operation truncate builds for loop index i (lines 574-601)
truncateStripeOp(obj, s, align, newLastStripeSize, i) ==
  IF i = 0
  THEN IF align
       THEN ObjWriteExisting(obj, newLastStripeSize,
                             Zeros(s - newLastStripeSize))
       ELSE ObjTruncate(obj, newLastStripeSize)
  ELSE NoObj

\* truncateNewLastStripe computed as newSize / stripeSize
truncateNewLastStripeOfSize(s, newSize) ==
  IF newSize = 0 THEN 0 ELSE newSize \div s

\* newLastStripe of truncate (lines 545-552)
truncateNewLastStripe(s, newSize) ==
  LET newLastStripe == IF newSize = 0 THEN 0 ELSE (newSize - 1) \div s
  IN  IF newLastStripe = 0 /\ newSize > s THEN s ELSE newLastStripe

\* truncateTotalStripes of a truncate that never counts the stripes above
\* the new last one
truncateTotalStripesOne(lastStripe, newLastStripe, currentSize, newSize) == 1

\* totalStripes of truncate (lines 546-555); size_t arithmetic wraps, and
\* the loop index is its signed reading, so a negative count is kept
truncateTotalStripes(lastStripe, newLastStripe, currentSize, newSize) ==
  IF currentSize > newSize THEN lastStripe - newLastStripe + 1 ELSE 1

\* the stripe loop of truncate (lines 565-611), i from totalStripes-1 down
\* to 0, with every completion finalized
RECURSIVE TruncateStripes(_, _, _, _, _, _)
TruncateStripes(stripes, s, align, newLastStripe, newLastStripeSize, i) ==
  IF i < 0 THEN stripes
  ELSE TruncateStripes(
         IF newLastStripe + i \in DOMAIN stripes
         THEN [stripes EXCEPT ![newLastStripe + i] =
                 truncateStripeOp(@, s, align, newLastStripeSize, i)]
         ELSE stripes,
         s, align, newLastStripe, newLastStripeSize, i - 1)

\* the status the store gives the completion of a stripe operation on obj:
\* remove() (lines 491, 597) and the assert_exists() of truncate (line 593)
\* fail with -ENOENT on an absent object, a write creates it
stripeOpStatus(obj, what) ==
  IF what # "write" /\ obj = NoObj THEN -ENOENT ELSE 0

\* the first non-zero status among the completions of the operations what
\* on the stripes first..first+total-1, 0 if there is none
completionsStatus(stripes, first, total, what) ==
  IF \E i \in 0..(total - 1) :
       stripeOpStatus(StripeAt(stripes, first + i), what) # 0
  THEN -ENOENT ELSE 0

\* the stripe loop of remove (lines 480-500): stripes 0..lastStripe removed
RemoveStripes(stripes, lastStripe) ==
  [k \in DOMAIN stripes |-> IF k <= lastStripe THEN NoObj ELSE stripes[k]]

(***************************************************************************)
(* The advisory lock of the base object (cls_lock) and the engine's lease. *)
(***************************************************************************)
\* FILE_LOCK_DURATION, in clock ticks
FILE_LOCK_DURATION == 3
\* mLocker == "": nobody holds the lease; operation ids are 1, 2, ...
NoLocker == 0

\* the lockers of the store whose lease has not expired
LiveLockers(lockers, t) == {l \in lockers : l.exp >= t}

\* lock_shared (cookie "write", tagged) / lock_exclusive (cookie "other",
\* untagged) of the store for client inst: busy when live lockers hold the
\* other kind of lock, exists when the client already holds this cookie, busy
\* when an exclusive lock is asked for and anybody holds the lock
storeLock(lockers, t, inst, excl) ==
  LET cookie == IF excl THEN "other" ELSE "write"
      live   == LiveLockers(lockers, t)
  IN  IF \E l \in live : l.cookie # cookie
      THEN [ret |-> -EBUSY, lockers |-> lockers]
      ELSE IF \E l \in live : l.inst = inst
      THEN [ret |-> -EEXIST, lockers |-> lockers]
      ELSE IF live # {} /\ excl
      THEN [ret |-> -EBUSY, lockers |-> lockers]
      ELSE [ret     |-> 0,
            lockers |-> live \cup {[inst   |-> inst,
                                    cookie |-> cookie,
                                    exp    |-> t + FILE_LOCK_DURATION]}]

\* ioctx.unlock(inode, FILE_STRIPE_LOCKER, cookie)
storeUnlock(lockers, inst, cookie) ==
  {l \in lockers : ~(l.inst = inst /\ l.cookie = cookie)}

\* the lease is kept without asking the store (lines 239-248, 276-287)
keepLock(uuid, locker, start, t) ==
  /\ t - start < FILE_LOCK_DURATION - 1
  /\ (locker = NoLocker \/ locker = uuid)

\* one pass of lockShared(uuid): done is FALSE while the store answers
\* -EBUSY and the loop of line 254 spins; stored: the store granted the lock
lockShared(inst, uuid, locker, start, lockers, t) ==
  IF keepLock(uuid, locker, start, t)
  THEN [done |-> TRUE, mLocker |-> uuid, mLockStart |-> start,
        lockers |-> lockers, stored |-> FALSE]
  ELSE LET r == storeLock(lockers, t, inst, FALSE)
       IN  IF r.ret = -EBUSY
           THEN [done |-> FALSE, mLocker |-> locker, mLockStart |-> start,
                 lockers |-> lockers, stored |-> FALSE]
           ELSE [done |-> TRUE, mLocker |-> uuid, mLockStart |-> t,
                 lockers |-> r.lockers, stored |-> r.ret = 0]

\* one pass of lockExclusive(uuid): the loop of line 293 spins on every
\* answer but 0
lockExclusive(inst, uuid, locker, start, lockers, t) ==
  IF keepLock(uuid, locker, start, t)
  THEN [done |-> TRUE, mLocker |-> uuid, mLockStart |-> start,
        lockers |-> lockers, stored |-> FALSE]
  ELSE LET r == storeLock(lockers, t, inst, TRUE)
       IN  IF r.ret # 0
           THEN [done |-> FALSE, mLocker |-> locker, mLockStart |-> start,
                 lockers |-> lockers, stored |-> FALSE]
           ELSE [done |-> TRUE, mLocker |-> uuid, mLockStart |-> t,
                 lockers |-> r.lockers, stored |-> TRUE]

\* manageIdleLock with the test of the time-out left out
manageIdleLockNoTimeOut(inst, idleTimeout, free, locker, start, lockers, t) ==
  LET seconds == t - start
  IN  IF free /\ locker = NoLocker /\ seconds >= idleTimeout
      THEN [released   |-> TRUE,
            lockers    |-> storeUnlock(storeUnlock(lockers, inst, "write"),
                                       inst, "other"),
            mLocker    |-> NoLocker,
            mLockStart |-> t - (FILE_LOCK_DURATION + 1)]
      ELSE [released |-> FALSE, lockers |-> lockers, mLocker |-> locker,
            mLockStart |-> start]

\* manageIdleLock(idleTimeout) (lines 756-783); free: mLockMutex.try_lock()
\* succeeds
manageIdleLock(inst, idleTimeout, free, locker, start, lockers, t) ==
  LET seconds      == t - start
      lockIsIdle   == seconds >= idleTimeout
      lockTimedOut == seconds > FILE_LOCK_DURATION
  IN  IF free /\ locker = NoLocker /\ lockIsIdle /\ ~lockTimedOut
      THEN [released   |-> TRUE,
            lockers    |-> storeUnlock(storeUnlock(lockers, inst, "write"),
                                       inst, "other"),
            mLocker    |-> NoLocker,
            mLockStart |-> t - (FILE_LOCK_DURATION + 1)]
      ELSE [released |-> FALSE, lockers |-> lockers, mLocker |-> locker,
            mLockStart |-> start]

\* a lock the store grants is written to the base object, which it creates
Created(stripes, stored) ==
  IF stored /\ stripes[0] = NoObj THEN [stripes EXCEPT ![0] = <<>>]
  ELSE stripes

\* verifyWriteParams(offset, length)
verifyWriteParams(offset, length) ==
  LET ret == IF length = 0 THEN -EINVAL ELSE 0
  IN  IF offset + length > PoolSize THEN -EFBIG ELSE ret

\* generateUuid(): an id no operation in sight carries
FreshUuid(used) ==
  CHOOSE n \in 1..(Cardinality(used) + 1) :
    n \notin used /\ \A m \in 1..(n - 1) : m \in used

(***************************************************************************)
(* State.                                                                  *)
(***************************************************************************)
VARIABLES
  cfg,          \* the pool and the instance: stripe (mStripeSize), align
                \* (mPool->hasAlignment()), cap (inline capacity, 0: none)
  stripes,      \* the stripe objects of the inode, by index
  sizeAttr,     \* omap entry file_size of the base object, <<>>: not set
  inlineBuf,    \* the inline buffer's contents
  lockers,      \* the lockers of the base object's advisory lock
  now,          \* the clock
  mLocker,      \* per instance: mLocker
  mLockStart,   \* per instance: mLockStart
  mOperations,  \* per instance: the op manager's operations
  marks,        \* top: the highest end (offset + blen) of the writes that
                \* returned 0 since the latest truncate or remove; stop:
                \* the same of the writes that reached the stripe loop;
                \* wtop: the highest end of all writes that returned 0
  calls,        \* the number of calls made
  last,         \* the latest call and what it returned
  runs,         \* the calls in progress, step by step
  inflight,     \* the stripe operations submitted and not yet finalized
  sub,          \* the latest stripe operation submitted
  opsMutex,     \* per instance: the thread that holds the op manager's
                \* opsMutex (run r: r, waiter w: -w), 0: nobody
  waits         \* the calls of sync(opId) in progress, step by step

vars == <<cfg, stripes, sizeAttr, inlineBuf, lockers, now, mLocker,
          mLockStart, mOperations, marks, calls, last, runs, inflight, sub,
          opsMutex, waits>>

\* engine instances (clients of the store) on the inode
Instances == {1, 2}

\* highest stripe index a file of PoolSize bytes can have
MaxStripeIdx ==
  (PoolSize - 1) \div (CHOOSE x \in StripeSizes : \A y \in StripeSizes : x <= y)

\* a call: op, its arguments (off, data: the buffer handed in, arg: blen of
\* read, newSize of truncate), ret and, of a read, buf: the buffer
\* afterwards.  Noted with a truncate: held, the bytes of the file below
\* min(newSize, size) before it.  Noted with a read: after, the call it
\* follows when that call returned 0 and the read is of just its bytes from
\* offset 0 (the data of a writeSync at offset 0, the held of a truncate).
\* status: the first non-zero status of the call's stripe completions
NoCall ==
  [op |-> "none", off |-> 0, data |-> <<>>, arg |-> 0, ret |-> 0,
   buf |-> <<>>, held |-> <<>>, after |-> [op |-> "none", bytes |-> <<>>],
   status |-> 0]

\* an operation of the op manager: ready (setReady called), pending (its
\* completions not yet finalized), status (first non-zero return value)
Op(id, ready) == [id |-> id, ready |-> ready, pending |-> 0, status |-> 0]

\* an operation that is ready, its completions finalized with status
DoneOp(id, status) == [Op(id, TRUE) EXCEPT !.status = status]

OpIds(e) == {o.id : o \in mOperations[e]} \cup ({mLocker[e]} \ {NoLocker})

\* sync() that waits for the ops to be ready, but not for their completions
SyncReturnsReady(e) == \A o \in mOperations[e] : o.ready

\* sync() that waits for no operation
SyncReturnsUnwaited(e) == e \in Instances

\* mOpManager.sync() returns once every operation is ready and complete
SyncReturns(e) == \A o \in mOperations[e] : o.ready /\ o.pending = 0

\* the bytes of the file below n as the stripes hold them (holes are zero),
\* the inline buffer taking precedence for the bytes it holds
FileBytes(n) ==
  [i \in 1..n |->
     IF i <= Len(inlineBuf) THEN inlineBuf[i]
     ELSE LET obj == StripeAt(stripes, (i - 1) \div cfg.stripe)
              k   == ((i - 1) % cfg.stripe) + 1
          IN  IF obj # NoObj /\ k <= Len(obj) THEN obj[k] ELSE 0]

\* the variables of the calls made step by step
stepvars == <<runs, inflight, sub, opsMutex, waits>>

\* a call in progress: kind (the method), inst (the instance), pc (where it
\* stands), buff and offset (of a write, past the inline part), arg (blen of
\* a read, newSize of a truncate), first (firstStripe of realWrite,
\* newLastStripe of truncate), total (totalStripes), i (the stripe loop's
\* index), ret (the value returned), sz (what setSizeIfBigger returned), buf
\* (the buffer after a read), seen (of a read: the asynchronous writes that
\* had returned to their callers when the read was called; of the
\* destructor: the ops not yet complete when it was called; of a remove:
\* the removes that had returned 0 when it was called), mtime (the call
\* has scheduled an update of the mtime), status (the first non-zero status
\* of the call's stripe completions), dtor (the call is made by the
\* destructor).  The op id of run r is r.
NoRun ==
  [kind |-> "none", inst |-> 0, pc |-> "none", buff |-> <<>>, offset |-> 0,
   arg |-> 0, first |-> 0, total |-> 0, i |-> 0, ret |-> 0, sz |-> 0,
   buf |-> <<>>, seen |-> {}, mtime |-> FALSE, status |-> 0, dtor |-> FALSE]

\* a call of sync(opId) in progress: inst (the instance), id (the op id), pc,
\* ret (the value returned), seen (the op was registered when it was called)
NoWait ==
  [inst |-> 0, id |-> 0, pc |-> "none", ret |-> 0, seen |-> FALSE,
   asyncOps |-> <<>>, all |-> {}]

\* no stripe operation submitted yet
NoSub == [run |-> 0, inst |-> 0, excl |-> FALSE, held |-> FALSE, others |-> FALSE]

Init ==
  /\ runs = [r \in 1..MaxRuns |-> NoRun]
  /\ inflight = {}
  /\ sub = NoSub
  /\ opsMutex = [e \in Instances |-> 0]
  /\ waits = [w \in 1..MaxWaiters |-> NoWait]
  /\ cfg \in Configs
  /\ stripes = [k \in 0..MaxStripeIdx |-> NoObj]
  /\ sizeAttr = <<>>
  /\ inlineBuf = <<>>
  /\ lockers = {}
  /\ now = FILE_LOCK_DURATION
  /\ mLocker = [e \in Instances |-> NoLocker]
  /\ mLockStart = [e \in Instances |-> 0]
  /\ mOperations = [e \in Instances |-> {}]
  /\ marks = [top |-> 0, stop |-> 0, wtop |-> 0]
  /\ calls = 0
  /\ last = NoCall

(***************************************************************************)
(* The calls of one client thread, each run to its return.                 *)
(***************************************************************************)
Counted == calls < MaxCalls /\ calls' = calls + 1

Call(op, off, data, arg) ==
  [NoCall EXCEPT !.op = op, !.off = off, !.data = data, !.arg = arg]

\* realWrite(buff, offset, blen, false, asyncOp) run to its return with every
\* stripe completion finalized (lines 340-448)
realWrite(e, buff, offset, opId) ==
  LET s     == cfg.stripe
      inl   == realWriteInline(inlineBuf, cfg.cap, buff, offset)
      off2  == offset + inl.taken
      buff2 == SubSeq(buff, inl.taken + 1, Len(buff))
      blen2 == Len(buff2)
      total == TotalStripes(s, off2, blen2)
      lk    == IF total > 1
               THEN lockExclusive(e, opId, mLocker[e], mLockStart[e],
                                  lockers, now)
               ELSE lockShared(e, opId, mLocker[e], mLockStart[e],
                               lockers, now)
      sz    == setSizeIfBigger(Created(stripes, lk.stored), sizeAttr,
                               off2 + blen2)
  IN  IF inl.opResult < 0 \/ blen2 = 0
      THEN /\ inlineBuf' = inl.contents
           /\ mOperations' = [mOperations EXCEPT ![e] = @ \cup {Op(opId, TRUE)}]
           /\ marks' = [marks EXCEPT
                          !.top  = Max(@, offset + Len(buff)),
                          !.wtop = Max(@, offset + Len(buff))]
           /\ UNCHANGED <<stripes, sizeAttr, lockers, mLocker, mLockStart>>
      ELSE /\ lk.done
           /\ marks' = [top  |-> Max(marks.top, offset + Len(buff)),
                        stop |-> Max(marks.stop, offset + Len(buff)),
                        wtop |-> Max(marks.wtop, offset + Len(buff))]
           /\ inlineBuf' = inl.contents
           /\ sizeAttr' = sz.sizeAttr
           /\ stripes' = WriteStripes(s, cfg.align, buff2, off2 \div s, total,
                           [i |-> 0, currentOffset |-> off2 % s,
                            bytesToWrite |-> blen2, stripes |-> sz.stripes])
           /\ lockers' = lk.lockers
           /\ mLockStart' = [mLockStart EXCEPT ![e] = lk.mLockStart]
           /\ mLocker' = [mLocker EXCEPT ![e] = NoLocker]
           /\ mOperations' = [mOperations EXCEPT ![e] = @ \cup {Op(opId, TRUE)}]

\* FileIO::writeSync(buff, offset, blen)
WriteSync(e, buff, offset) ==
  /\ Counted
  /\ Cardinality(mOperations[e]) < MaxOps
  /\ LET opId == FreshUuid(OpIds(e))
         v    == verifyWriteParams(offset, Len(buff))
     IN  IF v # 0
         THEN /\ mOperations' =
                   [mOperations EXCEPT ![e] = @ \cup {Op(opId, FALSE)}]
              /\ marks' = marks
              /\ UNCHANGED <<stripes, sizeAttr, inlineBuf, lockers, mLocker,
                             mLockStart>>
              /\ last' = [Call("writeSync", offset, buff, 0) EXCEPT !.ret = v]
         ELSE /\ realWrite(e, buff, offset, opId)
              /\ last' = Call("writeSync", offset, buff, 0)
  /\ UNCHANGED <<cfg, now>>
  /\ UNCHANGED stepvars

\* FileIO::read(buff, offset, blen); the caller's buffer holds fill
Read(e, blen, offset, fill, oob) ==
  /\ Counted
  /\ SyncReturns(e)
  /\ LET buff == [i \in 1..blen |-> fill]
         r    == read(stripes, sizeAttr, inlineBuf, cfg.stripe, cfg.cap,
                      buff, offset, oob)
         same == offset = 0 /\ blen > 0 /\ last.ret = 0
     IN  last' = [Call("read", offset, buff, blen) EXCEPT
                    !.ret = r.ret, !.buf = r.buf,
                    !.after =
                      IF same /\ last.op = "writeSync" /\ last.off = 0
                              /\ Len(last.data) = blen
                      THEN [op |-> "writeSync", bytes |-> last.data]
                      ELSE IF same /\ last.op = "truncate"
                                   /\ Len(last.held) = blen
                      THEN [op |-> "truncate", bytes |-> last.held]
                      ELSE NoCall.after]
  /\ mOperations' = [mOperations EXCEPT ![e] = {}]
  /\ UNCHANGED <<cfg, stripes, sizeAttr, inlineBuf, lockers, now, mLocker,
                 mLockStart, marks>>
  /\ UNCHANGED stepvars

\* FileIO::truncate(newSize); currentSize is what the uninitialized variable
\* of line 534 holds when the size lookup fails
Truncate(e, newSize, currentSize) ==
  /\ Counted
  /\ UNCHANGED <<cfg, now>>
  /\ UNCHANGED stepvars
  /\ IF newSize > PoolSize
     THEN /\ last' = [Call("truncate", 0, <<>>, newSize) EXCEPT !.ret = -EFBIG]
          /\ UNCHANGED <<stripes, sizeAttr, inlineBuf, lockers, mLocker,
                         mLockStart, mOperations, marks>>
     ELSE
       LET s       == cfg.stripe
           opId    == FreshUuid({mLocker[e]} \ {NoLocker})
           lk      == lockExclusive(e, opId, NoLocker, mLockStart[e],
                                    storeUnlock(lockers, e, "write"), now)
           st1     == Created(stripes, lk.stored)
           look    == getLastStripeIndexAndSize(st1, sizeAttr, s, currentSize)
           lastStripe    == IF look.ret = -ENOENT THEN 0 ELSE look.ret
           newLastStripe == truncateNewLastStripe(s, newSize)
           totalStripes  == truncateTotalStripes(lastStripe, newLastStripe,
                                                 look.size, newSize)
           sz      == setSize(st1, sizeAttr, newSize)
           status  == completionsStatus(sz.stripes, newLastStripe,
                                        totalStripes, "truncate")
       IN  /\ SyncReturns(e)
           /\ lk.done
           /\ inlineBuf' = IF cfg.cap > 0
                           THEN InlineTruncate(inlineBuf, newSize)
                           ELSE inlineBuf
           /\ sizeAttr' = sz.sizeAttr
           /\ stripes' = TruncateStripes(sz.stripes, s, cfg.align,
                                         newLastStripe, newSize % s,
                                         totalStripes - 1)
           /\ lockers' = lk.lockers
           /\ mLockStart' = [mLockStart EXCEPT ![e] = lk.mLockStart]
           /\ mLocker' = [mLocker EXCEPT ![e] = NoLocker]
           /\ mOperations' = [mOperations EXCEPT ![e] = {DoneOp(opId, status)}]
           /\ marks' = [marks EXCEPT !.top = 0, !.stop = 0]
           /\ last' = [Call("truncate", 0, <<>>, newSize) EXCEPT
                         !.held = FileBytes(Min(newSize,
                                     getSize(stripes, sizeAttr, s))),
                         !.status = status]

\* FileIO::remove()
Remove(e) ==
  LET opId == FreshUuid(OpIds(e))
      lk   == lockExclusive(e, opId, NoLocker, mLockStart[e],
                            storeUnlock(lockers, e, "write"), now)
      st1  == Created(stripes, lk.stored)
      lastStripe == getLastStripeIndexAndSize(st1, sizeAttr, cfg.stripe, 0).ret
      status == completionsStatus(st1, 0, lastStripe + 1, "remove")
  IN  /\ Counted
      /\ SyncReturns(e)
      /\ lk.done
      /\ mLockStart' = [mLockStart EXCEPT ![e] = lk.mLockStart]
      /\ IF lastStripe < 0
         THEN /\ stripes' = st1
              /\ lockers' = lk.lockers
              /\ mLocker' = [mLocker EXCEPT ![e] = opId]
              /\ mOperations' = [mOperations EXCEPT ![e] = {}]
              /\ UNCHANGED sizeAttr
         ELSE /\ stripes' = RemoveStripes(st1, lastStripe)
              /\ sizeAttr' = <<>>
              /\ lockers' = {}
              /\ mLocker' = [mLocker EXCEPT ![e] = NoLocker]
              /\ mOperations' = [mOperations EXCEPT ![e] = {DoneOp(opId, status)}]
      /\ last' = [Call("remove", 0, <<>>, 0) EXCEPT
                    !.ret = Min(lastStripe, 0),
                    !.status = IF lastStripe < 0 THEN 0 ELSE status]
      /\ marks' = [marks EXCEPT !.top = 0, !.stop = 0]
      /\ UNCHANGED <<cfg, inlineBuf, now>>
      /\ UNCHANGED stepvars

\* what line 534 may hold: a value below and a value above every new size
Garbage == {0, PoolSize + 1}

Next ==
  \/ \E buff \in Payloads(MaxWriteLen), offset \in 0..(PoolSize + 1) :
       WriteSync(1, buff, offset)
  \/ \E blen \in 0..PoolSize, offset \in 0..PoolSize,
        fill \in FillBytes, oob \in FillBytes :
       Read(1, blen, offset, fill, oob)
  \/ \E newSize \in 0..(PoolSize + 1), currentSize \in Garbage :
       Truncate(1, newSize, currentSize)
  \/ Remove(1)

Spec == Init /\ [][Next]_vars


(***************************************************************************)
(* Properties of the calls of one client thread (Spec).                    *)
(***************************************************************************)
\* byte position p (0-based) is held by its stripe object
Stored(p) ==
  LET obj == StripeAt(stripes, p \div cfg.stripe)
  IN  obj # NoObj /\ (p % cfg.stripe) < Len(obj)

\* the bytes of the file in [off, off + n)
FileRange(off, n) == [i \in 1..n |-> FileBytes(off + n)[off + i]]

\* ceil(size / stripeSize) - 1
LastStripeOf(size) == ((size + cfg.stripe - 1) \div cfg.stripe) - 1

\* the latest call is a read(buf, 0, |B|) that directly follows a
\* writeSync(B, 0, |B|) that returned 0
ReadBack == last.op = "read" /\ last.after.op = "writeSync"

\* C1: writeSync(B, 0, |B|) followed by read(buf, 0, |B|) returns |B| and
\* leaves buf equal to B, for every B and every stripe size, in every
\* configuration of the instance.
C1_RoundTrip ==
  ReadBack => (last.ret = last.arg /\ last.buf = last.after.bytes)

\* the round trip of C1 on an instance without an inline buffer
RoundTripNoInline ==
  (ReadBack /\ cfg.cap = 0) =>
    (last.ret = last.arg /\ last.buf = last.after.bytes)

\* the latest call is a read of a range below getSize() whose bytes the
\* stripe objects all hold, on an instance without an inline buffer
ReadStored ==
  /\ last.op = "read"
  /\ cfg.cap = 0
  /\ last.arg > 0
  /\ last.off + last.arg <= getSize(stripes, sizeAttr, cfg.stripe)
  /\ \A p \in last.off..(last.off + last.arg - 1) : Stored(p)

\* C2: without an inline buffer, read(buf, off, len) with len > 0 and
\* off + len <= getSize() returns exactly len and fills buf with the file's
\* bytes [off, off+len), one stripe read per stripe of the range, also when
\* len < stripeSize and the range crosses a stripe boundary.
C2_ReadReturnsRange ==
  ReadStored =>
    (last.ret = last.arg /\ last.buf = FileRange(last.off, last.arg))

\* C3: after truncate(S) returns 0 (S > 0) on a file written by earlier
\* writeSync calls, the new last stripe keeps every byte below the new size:
\* the file holds in [0, min(S, N)) the bytes it held before, and
\* read(buf, 0, min(S, N)) returns them.
C3_TruncateKeepsBytes ==
  /\ (last.op = "truncate" /\ last.ret = 0 /\ last.arg > 0 /\ marks.wtop > 0)
       => FileBytes(Len(last.held)) = last.held
  /\ (last.op = "read" /\ last.after.op = "truncate" /\ marks.wtop > 0)
       => (last.ret = last.arg /\ last.buf = last.after.bytes)

C8_TruncateSizeAndStripes ==
  (last.op = "truncate" /\ last.ret = 0) =>
    /\ getSize(stripes, sizeAttr, cfg.stripe) = last.arg
    /\ \A k \in DOMAIN stripes : k > LastStripeOf(last.arg) => stripes[k] = NoObj

\* C8, amended: after a truncate(S) that returned 0, getSize() returns S and
\* no stripe object with an index above max(ceil(S / stripeSize) - 1, 0)
\* exists: the base object, stripe 0, stays also when S = 0.
C8_TruncateSizeAndUpperStripes ==
  (last.op = "truncate" /\ last.ret = 0) =>
    /\ getSize(stripes, sizeAttr, cfg.stripe) = last.arg
    /\ \A k \in DOMAIN stripes :
         k > Max(LastStripeOf(last.arg), 0) => stripes[k] = NoObj

\* a truncate has just shrunk a file of more than one stripe
C8_Witness ==
  /\ last.op = "truncate" /\ last.ret = 0
  /\ marks.wtop > cfg.stripe
  /\ last.arg < marks.wtop
  /\ getSize(stripes, sizeAttr, cfg.stripe) = last.arg
  /\ \E k \in DOMAIN stripes : k > 0 /\ stripes[k] = NoObj

\* C9: a read with off + len <= getSize() delivers zero for every byte of
\* the range that no write ever covered and no stripe object holds (the
\* stripe is absent or shorter than the slice), whatever the buffer held.
C9_HolesReadZero ==
  (last.op = "read" /\ last.ret > 0 /\ cfg.cap = 0) =>
    \A i \in 1..last.ret :
      (last.off + i - 1 >= marks.wtop /\ ~Stored(last.off + i - 1))
        => last.buf[i] = 0

\* C12: a store failure other than a canceled size update and a stripe read
\* of an absent object is reported by the call that drove it: writeSync,
\* truncate and remove return the first non-zero status of their stripe
\* completions instead of 0.
C12_StoreFailuresReported ==
  (last.op \in {"writeSync", "truncate", "remove"} /\ last.status # 0)
    => last.ret = last.status

\* C16: between calls, when file_size = S > 0, the stripe objects that
\* exist are exactly those of index 0..ceil(S / stripeSize) - 1, after any
\* sequence of writeSync, truncate and remove.
C16_StripesOfSizeExist ==
  LET S == getSize(stripes, sizeAttr, cfg.stripe)
  IN  S > 0 =>
        \A k \in DOMAIN stripes : (k <= LastStripeOf(S)) <=> (stripes[k] # NoObj)

\* C16, amended: between calls, when file_size = S > 0, the base object
\* exists and no stripe object of an index above ceil(S / stripeSize) - 1
\* exists; the stripes in between may be absent.
C16_BaseAndNoUpperStripes ==
  LET S == getSize(stripes, sizeAttr, cfg.stripe)
  IN  S > 0 =>
        /\ stripes[0] # NoObj
        /\ \A k \in DOMAIN stripes : k > LastStripeOf(S) => stripes[k] = NoObj

\* a truncate has shrunk a file of more than one stripe to S > 0, the
\* stripes above the new last one are gone and the base object is there
C16_Witness ==
  /\ last.op = "truncate" /\ last.ret = 0 /\ last.arg > 0
  /\ getSize(stripes, sizeAttr, cfg.stripe) = last.arg
  /\ LastStripeOf(marks.wtop) > LastStripeOf(last.arg)
  /\ stripes[0] # NoObj
  /\ \A k \in DOMAIN stripes : k > LastStripeOf(last.arg) => stripes[k] = NoObj

\* C17: on a pool with an alignment every stripe object that exists is
\* exactly stripeSize bytes long, after any sequence of writeSync and
\* truncate, for writes at any offset inside a stripe.
C17_AlignedStripesFull ==
  cfg.align =>
    \A k \in DOMAIN stripes :
      stripes[k] # NoObj => Len(stripes[k]) = cfg.stripe

\* C18: with an inline buffer and off < capacity, read takes exactly
\* min(len, inline length - off) bytes (0 when off is at or beyond the inline
\* length) from the inline contents at off and never reads beyond their end.
C18_InlineReadExact ==
  (last.op = "read" /\ cfg.cap > 0 /\ last.off < cfg.cap /\ last.arg > 0) =>
    LET n == readInlineCount(inlineBuf, cfg.cap, last.arg, last.off)
    IN  /\ n = Min(last.arg, Max(Len(inlineBuf) - last.off, 0))
        /\ n > 0 => last.off + n <= Len(inlineBuf)
        /\ \A i \in 1..n : last.buf[i] = inlineBuf[last.off + i]

\* C19: writeSync returns -EINVAL for every call with len = 0, whatever the
\* offset, -EFBIG exactly when len > 0 and off + len > mPool->size, and
\* every other call passes the validation.
C19_WriteValidation ==
  last.op = "writeSync" =>
    LET len == Len(last.data)
    IN  /\ len = 0 => last.ret = -EINVAL
        /\ (last.ret = -EFBIG) <=> (len > 0 /\ last.off + len > PoolSize)
        /\ (len > 0 /\ last.off + len <= PoolSize)
             => last.ret \notin {-EINVAL, -EFBIG}

C22_LockerResetOnReturn ==
  last.op \in {"writeSync", "truncate", "remove"} =>
    \A e \in Instances : mLocker[e] = NoLocker

\* C26: a writeSync(buf, off, len) that returns 0 changes only the bytes of
\* the file in [off, off + len): every byte outside that range that was
\* readable before the write reads the same after it, with and without
\* alignment of the pool, the bytes that follow the written slice inside the
\* same stripe included.
C26_WriteFrame ==
  [][(last'.op = "writeSync" /\ last'.ret = 0 /\ calls' = calls + 1) =>
       LET size == getSize(stripes, sizeAttr, cfg.stripe)
       IN  \A p \in 0..(size - 1) :
             (p < last'.off \/ p >= last'.off + Len(last'.data)) =>
               FileBytes(size)'[p + 1] = FileBytes(size)[p + 1]]_vars


(***************************************************************************)
(* The calls step by step: several client threads and io-service threads,  *)
(* on one or two engine instances, with the store finalizing each stripe   *)
(* operation on its own.                                                   *)
(***************************************************************************)
\* the buffers and offsets of the writes, and the sizes of the truncates
StepPayloads == {<<>>, <<1>>, <<2, 1, 2>>}
StepOffsets == {0}
StepSizes == {0, 1, PoolSize + 1}
\* the instance of the step-by-step specifications: one stripe size, no
\* alignment, no inline buffer
StepConfigs == {c \in Configs : c.stripe = 2}

InitSteps == Init /\ cfg \in StepConfigs

\* run r is free, and the runs before it are taken
CanStart(r) ==
  /\ runs[r].kind = "none"
  /\ \A q \in 1..(r - 1) : runs[q].kind # "none"

\* instance e has not been handed to its destructor
Alive(e) == \A q \in 1..MaxRuns : ~(runs[q].dtor /\ runs[q].inst = e)

\* the op manager's operations with op id made ready (setReady) when ready
\* holds, and its count of unfinalized completions changed by pending
ChangeOp(ops, id, ready, pending) ==
  {IF o.id = id
   THEN [o EXCEPT !.ready = @ \/ ready, !.pending = @ + pending]
   ELSE o : o \in ops}

\* a completion of op id is finalized with status st: the op keeps the first
\* non-zero status
Finalize(ops, id, st) ==
  {IF o.id = id
   THEN [o EXCEPT !.pending = @ - 1, !.status = IF @ = 0 THEN st ELSE @]
   ELSE o : o \in ops}

\* mOperations[op->id()] = op (addOperation, lines 883-889)
addOperation(ops, id) == {o \in ops : o.id # id} \cup {Op(id, FALSE)}

\* a write that never takes the lock exclusively
NeedsExclusiveNoWrite(run) ==
  run.kind \in {"truncate", "remove"}

\* the calls that take the lock exclusively: truncate, remove, and a write
\* of more than one stripe (lines 388-391, 532, 460)
NeedsExclusive(run) ==
  run.kind \in {"truncate", "remove"} \/ run.total > 1

\* FileIO::writeSync up to the call of realWrite (lines 166-177)
StartWriteSync(r, e, buff, offset) ==
  /\ CanStart(r)
  /\ Alive(e)
  /\ opsMutex[e] = 0
  /\ LET v == verifyWriteParams(offset, Len(buff))
     IN  runs' = [runs EXCEPT ![r] =
                    [NoRun EXCEPT !.kind = "writeSync", !.inst = e,
                                  !.buff = buff, !.offset = offset, !.ret = v,
                                  !.pc = IF v # 0 THEN "done" ELSE "begin"]]
  /\ mOperations' = [mOperations EXCEPT ![e] = addOperation(@, r)]
  /\ UNCHANGED <<opsMutex, waits>>
  /\ UNCHANGED <<cfg, stripes, sizeAttr, inlineBuf, lockers, now, mLocker,
                 mLockStart, marks, calls, last, inflight, sub>>

\* FileIO::write (lines 180-207): it returns once realWrite is posted
StartWrite(r, e, buff, offset) ==
  /\ CanStart(r)
  /\ Alive(e)
  /\ LET v == verifyWriteParams(offset, Len(buff))
     IN  /\ v = 0 => opsMutex[e] = 0
         /\ runs' = [runs EXCEPT ![r] =
                       [NoRun EXCEPT !.kind = "write", !.inst = e,
                                     !.buff = buff, !.offset = offset,
                                     !.ret = v,
                                     !.pc = IF v # 0 THEN "done" ELSE "begin"]]
         /\ mOperations' = [mOperations EXCEPT ![e] =
                              IF v # 0 THEN @ ELSE addOperation(@, r)]
  /\ UNCHANGED <<opsMutex, waits>>
  /\ UNCHANGED <<cfg, stripes, sizeAttr, inlineBuf, lockers, now, mLocker,
                 mLockStart, marks, calls, last, inflight, sub>>

\* FileIO::read, FileIO::truncate, FileIO::remove up to mOpManager.sync()
StartRead(r, e, blen, offset) ==
  /\ CanStart(r)
  /\ Alive(e)
  /\ runs' = [runs EXCEPT ![r] =
                [NoRun EXCEPT !.kind = "read", !.inst = e, !.arg = blen,
                              !.offset = offset, !.pc = "sync",
                              !.seen = {o.id : o \in
                                          {x \in mOperations[e] :
                                             runs[x.id].kind = "write"}}]]
  /\ UNCHANGED <<opsMutex, waits>>
  /\ UNCHANGED <<cfg, stripes, sizeAttr, inlineBuf, lockers, now, mLocker,
                 mLockStart, mOperations, marks, calls, last, inflight, sub>>

StartTruncate(r, e, newSize) ==
  /\ CanStart(r)
  /\ Alive(e)
  /\ runs' = [runs EXCEPT ![r] =
                [NoRun EXCEPT !.kind = "truncate", !.inst = e, !.arg = newSize,
                              !.ret = IF newSize > PoolSize THEN -EFBIG ELSE 0,
                              !.pc = IF newSize > PoolSize
                                     THEN "done" ELSE "sync"]]
  /\ UNCHANGED <<opsMutex, waits>>
  /\ UNCHANGED <<cfg, stripes, sizeAttr, inlineBuf, lockers, now, mLocker,
                 mLockStart, mOperations, marks, calls, last, inflight, sub>>

StartRemove(r, e) ==
  /\ CanStart(r)
  /\ Alive(e)
  /\ runs' = [runs EXCEPT ![r] =
                [NoRun EXCEPT !.kind = "remove", !.inst = e, !.pc = "sync",
                              !.seen = {q \in 1..MaxRuns :
                                          /\ runs[q].kind = "remove"
                                          /\ runs[q].pc = "done"
                                          /\ runs[q].ret = 0}]]
  /\ UNCHANGED <<opsMutex, waits>>
  /\ UNCHANGED <<cfg, stripes, sizeAttr, inlineBuf, lockers, now, mLocker,
                 mLockStart, mOperations, marks, calls, last, inflight, sub>>


\* the marks after a write that ends at top returned 0; striped: it reached
\* the stripe loop
MarkWrite(top, striped) ==
  [top  |-> Max(marks.top, top),
   stop |-> IF striped THEN Max(marks.stop, top) ELSE marks.stop,
   wtop |-> Max(marks.wtop, top)]

\* realWrite up to the stripe arithmetic (lines 344-387): the inline buffer
\* takes its part, and the op is set ready if nothing is left; else the
\* update of the mtime is scheduled (line 378)
Begin(r) ==
  LET run   == runs[r]
      e     == run.inst
      inl   == realWriteInline(inlineBuf, cfg.cap, run.buff, run.offset)
      off2  == run.offset + inl.taken
      buff2 == SubSeq(run.buff, inl.taken + 1, Len(run.buff))
      nothing == inl.opResult < 0 \/ Len(buff2) = 0
  IN  /\ run.pc = "begin"
      /\ inlineBuf' = inl.contents
      /\ runs' = [runs EXCEPT ![r] =
                    IF nothing THEN [run EXCEPT !.pc = "done"]
                    ELSE [run EXCEPT
                            !.mtime = TRUE,
                            !.buff = buff2, !.offset = off2,
                            !.first = off2 \div cfg.stripe,
                            !.total = TotalStripes(cfg.stripe, off2, Len(buff2)),
                            !.pc = "lock"]]
      /\ mOperations' = [mOperations EXCEPT ![e] =
                           IF nothing THEN ChangeOp(@, r, TRUE, 0) ELSE @]
      /\ marks' = IF nothing
                  THEN MarkWrite(run.offset + Len(run.buff), FALSE)
                  ELSE marks
      /\ UNCHANGED <<opsMutex, waits>>
      /\ UNCHANGED <<cfg, stripes, sizeAttr, lockers, now, mLocker, mLockStart,
                     calls, last, inflight, sub>>

\* mOpManager.sync() of read (line 66), truncate (line 517), remove (line
\* 454) and the destructor (line 50) takes opsMutex (line 844)
SyncLock(r) ==
  LET run == runs[r]
      e   == run.inst
  IN  /\ run.pc = "sync"
      /\ opsMutex[e] = 0
      /\ opsMutex' = [opsMutex EXCEPT ![e] = r]
      /\ runs' = [runs EXCEPT ![r].pc = "syncwait"]
      /\ UNCHANGED <<cfg, stripes, sizeAttr, inlineBuf, lockers, now, mLocker,
                     mLockStart, mOperations, marks, calls, last, inflight,
                     sub, waits>>

\* mOpManager.sync() (lines 846-861): with opsMutex held it waits for every
\* operation and erases it.  truncate goes on to truncate the inline buffer
\* and to schedule the update of the mtime (lines 519-524), the destructor
\* to remove() when mLazyRemoval is set (lines 52-56)
Sync(r) ==
  LET run == runs[r]
      e   == run.inst
  IN  /\ run.pc = "syncwait"
      /\ SyncReturns(e)
      /\ mOperations' = [mOperations EXCEPT ![e] = {}]
      /\ opsMutex' = [opsMutex EXCEPT ![e] = 0]
      /\ inlineBuf' = IF run.kind = "truncate" /\ cfg.cap > 0
                      THEN InlineTruncate(inlineBuf, run.arg)
                      ELSE inlineBuf
      /\ runs' = [runs EXCEPT ![r] =
                    IF run.kind = "read" THEN [run EXCEPT !.pc = "read"]
                    ELSE IF run.kind = "truncate"
                    THEN [run EXCEPT !.mtime = TRUE, !.pc = "unlock"]
                    ELSE IF run.kind = "destroy"
                    THEN IF run.arg = 1
                         THEN [run EXCEPT !.kind = "remove", !.pc = "sync"]
                         ELSE [run EXCEPT !.pc = "release"]
                    ELSE [run EXCEPT !.pc = "unlock"]]
      /\ UNCHANGED <<cfg, stripes, sizeAttr, lockers, now, mLocker, mLockStart,
                     marks, calls, last, inflight, sub, waits>>

\* unlockShared() of truncate (lines 528-530) and remove (lines 456-458)
Unlock(r) ==
  LET run == runs[r]
      e   == run.inst
  IN  /\ run.pc = "unlock"
      /\ lockers' = storeUnlock(lockers, e, "write")
      /\ mLocker' = [mLocker EXCEPT ![e] = NoLocker]
      /\ runs' = [runs EXCEPT ![r].pc = "lock"]
      /\ UNCHANGED <<opsMutex, waits>>
      /\ UNCHANGED <<cfg, stripes, sizeAttr, inlineBuf, now, mLockStart,
                     mOperations, marks, calls, last, inflight, sub>>

\* the lock a call takes before it touches the size: lockExclusive(opId) or
\* lockShared(opId) (lines 388-391, 532, 460); the call spins while the
\* store refuses
Lock(r) ==
  LET run == runs[r]
      e   == run.inst
      lk  == IF NeedsExclusive(run)
             THEN lockExclusive(e, r, mLocker[e], mLockStart[e], lockers, now)
             ELSE lockShared(e, r, mLocker[e], mLockStart[e], lockers, now)
  IN  /\ run.pc = "lock"
      /\ lk.done
      /\ lockers' = lk.lockers
      /\ mLocker' = [mLocker EXCEPT ![e] = lk.mLocker]
      /\ mLockStart' = [mLockStart EXCEPT ![e] = lk.mLockStart]
      /\ stripes' = Created(stripes, lk.stored)
      /\ runs' = [runs EXCEPT ![r].pc = "size"]
      /\ UNCHANGED <<opsMutex, waits>>
      /\ UNCHANGED <<cfg, sizeAttr, inlineBuf, now, mOperations, marks, calls,
                     last, inflight, sub>>

\* setSizeIfBigger(totalSize) of realWrite (line 393)
WriteSetSize(r) ==
  LET run == runs[r]
      sz  == setSizeIfBigger(stripes, sizeAttr, run.offset + Len(run.buff))
  IN  /\ run.pc = "size"
      /\ run.kind \in {"write", "writeSync"}
      /\ stripes' = sz.stripes
      /\ sizeAttr' = sz.sizeAttr
      /\ runs' = [runs EXCEPT ![r] = [run EXCEPT !.sz = sz.ret, !.i = 0,
                                                 !.pc = "stripe"]]
      /\ UNCHANGED <<opsMutex, waits>>
      /\ UNCHANGED <<cfg, inlineBuf, lockers, now, mLocker, mLockStart,
                     mOperations, marks, calls, last, inflight, sub>>

\* truncate from the size lookup to setSize (lines 534-557); currentSize is
\* what the uninitialized variable holds when the lookup fails
TruncSetSize(r, currentSize) ==
  LET run  == runs[r]
      e    == run.inst
      s    == cfg.stripe
      look == getLastStripeIndexAndSize(stripes, sizeAttr, s, currentSize)
      lastStripe    == IF look.ret = -ENOENT THEN 0 ELSE look.ret
      newLastStripe == truncateNewLastStripe(s, run.arg)
      totalStripes  == truncateTotalStripes(lastStripe, newLastStripe,
                                            look.size, run.arg)
      sz   == setSize(stripes, sizeAttr, run.arg)
  IN  /\ run.pc = "size"
      /\ run.kind = "truncate"
      /\ stripes' = sz.stripes
      /\ sizeAttr' = sz.sizeAttr
      /\ UNCHANGED mOperations
      /\ runs' = [runs EXCEPT ![r] =
                    [run EXCEPT !.first = newLastStripe,
                                !.total = totalStripes,
                                !.i = totalStripes - 1,
                                !.pc = "addop"]]
      /\ UNCHANGED <<opsMutex, waits>>
      /\ UNCHANGED <<cfg, inlineBuf, lockers, now, mLocker, mLockStart, marks,
                     calls, last, inflight, sub>>

\* getLastStripeIndex() of remove (lines 462-470); on an error it returns
\* with the lock
RemoveLookup(r) ==
  LET run == runs[r]
      e   == run.inst
      lastStripe == getLastStripeIndexAndSize(stripes, sizeAttr, cfg.stripe,
                                              0).ret
  IN  /\ run.pc = "size"
      /\ run.kind = "remove"
      /\ UNCHANGED mOperations
      /\ runs' = [runs EXCEPT ![r] =
                    IF lastStripe < 0
                    THEN [run EXCEPT !.ret = lastStripe, !.pc = "done"]
                    ELSE [run EXCEPT !.first = 0, !.total = lastStripe + 1,
                                     !.i = 0, !.pc = "addop"]]
      /\ UNCHANGED <<opsMutex, waits>>
      /\ UNCHANGED <<cfg, stripes, sizeAttr, inlineBuf, lockers, now, mLocker,
                     mLockStart, marks, calls, last, inflight, sub>>

\* mOpManager.addOperation(asyncOp) of truncate (line 563) and remove (line
\* 476), which takes opsMutex (line 886)
AddOp(r) ==
  LET run == runs[r]
      e   == run.inst
  IN  /\ run.pc = "addop"
      /\ opsMutex[e] = 0
      /\ mOperations' = [mOperations EXCEPT ![e] = addOperation(@, r)]
      /\ runs' = [runs EXCEPT ![r].pc =
                    IF run.total >= 1 THEN "stripe" ELSE "ready"]
      /\ UNCHANGED <<cfg, stripes, sizeAttr, inlineBuf, lockers, now, mLocker,
                     mLockStart, marks, calls, last, inflight, sub, opsMutex,
                     waits>>

\* the stripe operation iteration run.i of the call's stripe loop builds
\* (realWrite lines 406-423, truncate lines 569-601, remove lines 484-491)
stripeOp(r) ==
  LET run  == runs[r]
      s    == cfg.stripe
      currentOffset == IF run.i = 0 THEN run.offset % s ELSE 0
      written == IF run.i = 0 THEN 0
                 ELSE (s - (run.offset % s)) + (run.i - 1) * s
      op   == stripeWriteOp(s, cfg.align, run.buff, currentOffset,
                            Len(run.buff) - written)
      base == [run |-> r, inst |-> run.inst, stripe |-> run.first + run.i,
               what |-> run.kind, off |-> 0, data |-> <<>>, nls |-> 0,
               i |-> run.i]
  IN  IF run.kind \in {"write", "writeSync"}
      THEN [base EXCEPT !.what = "write", !.off = currentOffset,
                        !.data = op.contents]
      ELSE IF run.kind = "truncate"
      THEN [base EXCEPT !.nls = run.arg % s]
      ELSE base

\* one iteration of the stripe loop of realWrite (lines 399-439), truncate
\* (lines 565-611) or remove (lines 480-500): the lock is taken again and the
\* stripe operation is submitted
Stripe(r) ==
  LET run == runs[r]
      e   == run.inst
      lk  == IF NeedsExclusive(run)
             THEN lockExclusive(e, r, mLocker[e], mLockStart[e], lockers, now)
             ELSE lockShared(e, r, mLocker[e], mLockStart[e], lockers, now)
      i2  == IF run.kind = "truncate" THEN run.i - 1 ELSE run.i + 1
      live == LiveLockers(lk.lockers, now)
  IN  /\ run.pc = "stripe"
      /\ lk.done
      /\ lockers' = lk.lockers
      /\ mLocker' = [mLocker EXCEPT ![e] = lk.mLocker]
      /\ mLockStart' = [mLockStart EXCEPT ![e] = lk.mLockStart]
      /\ stripes' = Created(stripes, lk.stored)
      /\ inflight' = inflight \cup {stripeOp(r)}
      /\ mOperations' = [mOperations EXCEPT ![e] = ChangeOp(@, r, FALSE, 1)]
      /\ sub' = [run    |-> r,
                 inst   |-> e,
                 excl   |-> NeedsExclusive(run),
                 held   |-> \E l \in live : l.inst = e /\ l.cookie = "other",
                 others |-> \E l \in live : l.inst # e]
      /\ runs' = [runs EXCEPT ![r] =
                    [run EXCEPT !.i = i2,
                                !.pc = IF i2 < 0 \/ i2 >= run.total
                                       THEN "ready" ELSE "stripe"]]
      /\ UNCHANGED <<opsMutex, waits>>
      /\ UNCHANGED <<cfg, sizeAttr, inlineBuf, now, marks, calls, last>>

\* asyncOp->mPriv->setReady() (lines 441, 502, 613)
Ready(r) ==
  LET run == runs[r]
  IN  /\ run.pc = "ready"
      /\ mOperations' = [mOperations EXCEPT ![run.inst] =
                           ChangeOp(@, r, TRUE, 0)]
      /\ runs' = [runs EXCEPT ![r].pc = "wait"]
      /\ UNCHANGED <<opsMutex, waits>>
      /\ UNCHANGED <<cfg, stripes, sizeAttr, inlineBuf, lockers, now, mLocker,
                     mLockStart, marks, calls, last, inflight, sub>>

\* syncAndResetLocker(asyncOp) (lines 785-791) and the return of the call
Wait(r) ==
  LET run == runs[r]
  IN  /\ run.pc = "wait"
      /\ \A c \in inflight : c.run # r
      /\ mLocker' = [mLocker EXCEPT ![run.inst] = NoLocker]
      /\ runs' = [runs EXCEPT ![r].pc = "done"]
      /\ marks' = IF run.kind \in {"write", "writeSync"}
                  THEN MarkWrite(run.offset + Len(run.buff), TRUE)
                  ELSE [marks EXCEPT !.top = 0, !.stop = 0]
      /\ UNCHANGED <<opsMutex, waits>>
      /\ UNCHANGED <<cfg, stripes, sizeAttr, inlineBuf, lockers, now,
                     mLockStart, mOperations, calls, last, inflight, sub>>

\* the store finalizes a stripe operation with its status; with the base
\* object go its omap and its lock
Complete(c) ==
  LET gone == c.what = "remove" /\ c.stripe = 0
      st   == stripeOpStatus(StripeAt(stripes, c.stripe), c.what)
  IN  /\ c \in inflight
      /\ inflight' = inflight \ {c}
      /\ stripes' =
           IF c.stripe \notin DOMAIN stripes THEN stripes
           ELSE [stripes EXCEPT ![c.stripe] =
                   IF c.what = "write" THEN ObjWrite(@, c.off, c.data)
                   ELSE IF c.what = "truncate"
                   THEN truncateStripeOp(@, cfg.stripe, cfg.align, c.nls, c.i)
                   ELSE NoObj]
      /\ sizeAttr' = IF gone THEN <<>> ELSE sizeAttr
      /\ lockers' = IF gone THEN {} ELSE lockers
      /\ mOperations' = [mOperations EXCEPT ![c.inst] =
                           Finalize(@, c.run, st)]
      /\ runs' = [runs EXCEPT ![c.run].status = IF @ = 0 THEN st ELSE @]
      /\ UNCHANGED <<opsMutex, waits>>
      /\ UNCHANGED <<cfg, inlineBuf, now, mLocker, mLockStart, marks, calls,
                     last, sub>>

\* read after mOpManager.sync() (lines 68-163)
DoRead(r, fill, oob) ==
  LET run == runs[r]
      res == read(stripes, sizeAttr, inlineBuf, cfg.stripe, cfg.cap,
                  [i \in 1..run.arg |-> fill], run.offset, oob)
  IN  /\ run.pc = "read"
      /\ runs' = [runs EXCEPT ![r] = [run EXCEPT !.ret = res.ret,
                                                 !.buf = res.buf,
                                                 !.pc = "done"]]
      /\ UNCHANGED <<opsMutex, waits>>
      /\ UNCHANGED <<cfg, stripes, sizeAttr, inlineBuf, lockers, now, mLocker,
                     mLockStart, mOperations, marks, calls, last, inflight,
                     sub>>

\* FileIO::~FileIO up to mOpManager.sync() (lines 48-50); lazy: mLazyRemoval.
\* The callers of the instance have returned; the asynchronous writes they
\* posted may still be on their way
StartDestroy(r, e, lazy) ==
  /\ CanStart(r)
  /\ Alive(e)
  /\ \A q \in 1..MaxRuns :
       runs[q].inst = e => (runs[q].pc = "done" \/ runs[q].kind = "write")
  /\ \A w \in 1..MaxWaiters :
       waits[w].inst = e => waits[w].pc = "done"
  /\ runs' = [runs EXCEPT ![r] =
                [NoRun EXCEPT !.kind = "destroy", !.inst = e, !.dtor = TRUE,
                              !.arg = IF lazy THEN 1 ELSE 0, !.pc = "sync",
                              !.seen = {o.id : o \in
                                          {x \in mOperations[e] :
                                             ~(x.ready /\ x.pending = 0)}}]]
  /\ UNCHANGED <<opsMutex, waits>>
  /\ UNCHANGED <<cfg, stripes, sizeAttr, inlineBuf, lockers, now, mLocker,
                 mLockStart, mOperations, marks, calls, last, inflight, sub>>

\* unlockShared(); unlockExclusive() of the destructor (lines 58-60)
Release(r) ==
  LET run == runs[r]
      e   == run.inst
  IN  /\ run.pc = "release"
      /\ lockers' = storeUnlock(storeUnlock(lockers, e, "write"), e, "other")
      /\ mLocker' = [mLocker EXCEPT ![e] = NoLocker]
      /\ runs' = [runs EXCEPT ![r].pc = "done"]
      /\ UNCHANGED <<opsMutex, waits>>
      /\ UNCHANGED <<cfg, stripes, sizeAttr, inlineBuf, now, mLockStart,
                     mOperations, marks, calls, last, inflight, sub>>

\* waiter w is free, and the waiters before it are taken
CanWait(w) ==
  /\ waits[w].pc = "none"
  /\ \A v \in 1..(w - 1) : waits[v].pc # "none"

\* the loop of FileInode::sync (FileInode.cc:270-273): the thread goes on
\* to the next op id of asyncOps, or returns ret when there is none left
NextAsyncOp(wt) ==
  IF wt.asyncOps = <<>> THEN [wt EXCEPT !.pc = "done"]
  ELSE [wt EXCEPT !.id = Head(wt.asyncOps), !.asyncOps = Tail(wt.asyncOps),
                  !.pc = "lock"]

\* the op ids FileInode::write has pushed to asyncOps (FileInode.cc:211-216)
\* since the FileInode::sync calls of the threads in done cleared it; the
\* op id of a write that FileIO::write rejected is pushed as well, and names
\* no operation
AsyncOpsOf(e, done) ==
  LET ids == {r \in 1..MaxRuns : runs[r].kind = "write" /\ runs[r].inst = e}
               \ UNION {waits[v].all : v \in done}
  IN  [k \in 1..Cardinality(ids) |->
         CHOOSE r \in ids : Cardinality({q \in ids : q < r}) = k - 1]

\* FileInode::sync: asyncOpsMutex taken, the loop entered (with an empty
\* asyncOps the call returns 0 and changes nothing)
StartInodeSync(w, e) ==
  LET earlier == {v \in 1..MaxWaiters : waits[v].inst = e /\ waits[v].all # {}}
      ops     == AsyncOpsOf(e, earlier)
  IN  /\ CanWait(w)
      /\ Alive(e)
      /\ ops # <<>>
      /\ \A v \in earlier : waits[v].pc = "done"
      /\ waits' = [waits EXCEPT ![w] =
                     NextAsyncOp([NoWait EXCEPT !.inst = e, !.asyncOps = ops,
                                                !.all = {ops[k] : k \in DOMAIN ops}])]
      /\ UNCHANGED <<cfg, stripes, sizeAttr, inlineBuf, lockers, now, mLocker,
                     mLockStart, mOperations, marks, calls, last, runs,
                     inflight, sub, opsMutex>>

\* FileInode::sync calls sync(opId) with the op id of an asynchronous write
\* of the instance (FileInode.cc lines 269-273)
StartSyncOp(w, e, id) ==
  /\ CanWait(w)
  /\ Alive(e)
  /\ runs[id].kind = "write"
  /\ runs[id].inst = e
  /\ runs[id].ret = 0
  /\ waits' = [waits EXCEPT ![w] =
                 [NoWait EXCEPT !.inst = e, !.id = id, !.pc = "lock",
                                !.seen = \E o \in mOperations[e] : o.id = id]]
  /\ UNCHANGED <<cfg, stripes, sizeAttr, inlineBuf, lockers, now, mLocker,
                 mLockStart, mOperations, marks, calls, last, runs, inflight,
                 sub, opsMutex>>

\* OpsManager::sync(opId, true) up to waitForCompletion (lines 867-875): it
\* takes opsMutex and returns -ENOENT when the op is not in mOperations
SyncOpLock(w) ==
  LET wt  == waits[w]
      e   == wt.inst
      has == \E o \in mOperations[e] : o.id = wt.id
  IN  /\ wt.pc = "lock"
      /\ opsMutex[e] = 0
      /\ opsMutex' = [opsMutex EXCEPT ![e] = IF has THEN -w ELSE 0]
      /\ waits' = [waits EXCEPT ![w] =
                     IF has THEN [wt EXCEPT !.pc = "wait"]
                     ELSE NextAsyncOp([wt EXCEPT !.ret = -ENOENT])]
      /\ UNCHANGED <<cfg, stripes, sizeAttr, inlineBuf, lockers, now, mLocker,
                     mLockStart, mOperations, marks, calls, last, runs,
                     inflight, sub>>

\* waitForCompletion() returns the status of the op once it is ready and
\* complete; the op is erased and opsMutex released (lines 877-880)
SyncOpWait(w) ==
  LET wt == waits[w]
      e  == wt.inst
  IN  /\ wt.pc = "wait"
      /\ \E o \in mOperations[e] :
           /\ o.id = wt.id
           /\ o.ready /\ o.pending = 0
           /\ waits' = [waits EXCEPT ![w] =
                          NextAsyncOp([wt EXCEPT !.ret = o.status])]
           /\ mOperations' = [mOperations EXCEPT ![e] = @ \ {o}]
      /\ opsMutex' = [opsMutex EXCEPT ![e] = 0]
      /\ UNCHANGED <<cfg, stripes, sizeAttr, inlineBuf, lockers, now, mLocker,
                     mLockStart, marks, calls, last, runs, inflight, sub>>

\* a thread of instance e holds mLockMutex for longer than a step: it is in
\* syncAndResetLocker, waiting for its op (lines 788-789)
LockMutexHeld(e) ==
  \E r \in 1..MaxRuns : runs[r].inst = e /\ runs[r].pc = "wait"

\* the idle time-outs manageIdleLock is called with, in clock ticks
IdleTimeouts == {0, 1, FILE_LOCK_DURATION + 1}

\* the file system's idle-lock thread calls manageIdleLock on instance e
ManageIdle(e, idleTimeout) ==
  LET m == manageIdleLock(e, idleTimeout, ~LockMutexHeld(e), mLocker[e],
                          mLockStart[e], lockers, now)
  IN  /\ Alive(e)
      /\ lockers' = m.lockers
      /\ mLocker' = [mLocker EXCEPT ![e] = m.mLocker]
      /\ mLockStart' = [mLockStart EXCEPT ![e] = m.mLockStart]
      /\ UNCHANGED <<cfg, stripes, sizeAttr, inlineBuf, now, mOperations,
                     marks, calls, last>>
      /\ UNCHANGED stepvars

\* the clock
Tick ==
  /\ now < MaxTime
  /\ now' = now + 1
  /\ UNCHANGED <<cfg, stripes, sizeAttr, inlineBuf, lockers, mLocker,
                 mLockStart, mOperations, marks, calls, last>>
  /\ UNCHANGED stepvars

NextSteps ==
  \/ \E r \in 1..MaxRuns, e \in Instances, buff \in StepPayloads,
        offset \in StepOffsets : StartWriteSync(r, e, buff, offset)
  \/ \E r \in 1..MaxRuns, e \in Instances, buff \in StepPayloads,
        offset \in StepOffsets : StartWrite(r, e, buff, offset)
  \/ \E r \in 1..MaxRuns, e \in Instances, blen \in {Len(b) : b \in StepPayloads},
        offset \in StepOffsets : StartRead(r, e, blen, offset)
  \/ \E r \in 1..MaxRuns, e \in Instances, newSize \in StepSizes :
       StartTruncate(r, e, newSize)
  \/ \E r \in 1..MaxRuns, e \in Instances : StartRemove(r, e)
  \/ \E r \in 1..MaxRuns : Begin(r)
  \/ \E r \in 1..MaxRuns : SyncLock(r)
  \/ \E r \in 1..MaxRuns : Sync(r)
  \/ \E r \in 1..MaxRuns : Unlock(r)
  \/ \E r \in 1..MaxRuns : Lock(r)
  \/ \E r \in 1..MaxRuns : WriteSetSize(r)
  \/ \E r \in 1..MaxRuns, currentSize \in Garbage : TruncSetSize(r, currentSize)
  \/ \E r \in 1..MaxRuns : RemoveLookup(r)
  \/ \E r \in 1..MaxRuns : AddOp(r)
  \/ \E r \in 1..MaxRuns : Stripe(r)
  \/ \E r \in 1..MaxRuns : Ready(r)
  \/ \E r \in 1..MaxRuns : Wait(r)
  \/ \E c \in inflight : Complete(c)
  \/ \E r \in 1..MaxRuns, fill \in FillBytes, oob \in FillBytes :
       DoRead(r, fill, oob)
  \/ Tick

SpecSteps == InitSteps /\ [][NextSteps]_vars

\* writers only: no truncate, no remove
NextWriters ==
  \/ \E r \in 1..MaxRuns, e \in Instances, buff \in StepPayloads,
        offset \in StepOffsets : StartWriteSync(r, e, buff, offset)
  \/ \E r \in 1..MaxRuns, e \in Instances, buff \in StepPayloads,
        offset \in StepOffsets : StartWrite(r, e, buff, offset)
  \/ \E r \in 1..MaxRuns : Begin(r)
  \/ \E r \in 1..MaxRuns : Lock(r)
  \/ \E r \in 1..MaxRuns : WriteSetSize(r)
  \/ \E r \in 1..MaxRuns : Stripe(r)
  \/ \E r \in 1..MaxRuns : Ready(r)
  \/ \E r \in 1..MaxRuns : Wait(r)
  \/ \E c \in inflight : Complete(c)
  \/ Tick

SpecWriters == InitSteps /\ [][NextWriters]_vars

\* asynchronous writes and the destruction of the instances
NextTeardown ==
  \/ \E r \in 1..MaxRuns, e \in Instances, buff \in StepPayloads,
        offset \in StepOffsets : StartWrite(r, e, buff, offset)
  \/ \E r \in 1..MaxRuns, e \in Instances, lazy \in BOOLEAN :
       StartDestroy(r, e, lazy)
  \/ \E r \in 1..MaxRuns : Begin(r)
  \/ \E r \in 1..MaxRuns : SyncLock(r)
  \/ \E r \in 1..MaxRuns : Sync(r)
  \/ \E r \in 1..MaxRuns : Release(r)
  \/ \E r \in 1..MaxRuns : Unlock(r)
  \/ \E r \in 1..MaxRuns : Lock(r)
  \/ \E r \in 1..MaxRuns : WriteSetSize(r)
  \/ \E r \in 1..MaxRuns : RemoveLookup(r)
  \/ \E r \in 1..MaxRuns : AddOp(r)
  \/ \E r \in 1..MaxRuns : Stripe(r)
  \/ \E r \in 1..MaxRuns : Ready(r)
  \/ \E r \in 1..MaxRuns : Wait(r)
  \/ \E c \in inflight : Complete(c)
  \/ Tick

SpecTeardown == InitSteps /\ [][NextTeardown]_vars

\* the stripes of a file that holds the first n bytes of <<2, 1, 2>>
Written(s, n) ==
  [k \in 0..MaxStripeIdx |->
     IF k * s < n
     THEN SubSeq(<<2, 1, 2>>, k * s + 1, Min(n, (k + 1) * s))
     ELSE NoObj]

\* an inode that other instances, gone since, have written: the file
\* exists, nobody holds its lock
InitExisting ==
  /\ runs = [r \in 1..MaxRuns |-> NoRun]
  /\ inflight = {}
  /\ sub = NoSub
  /\ opsMutex = [e \in Instances |-> 0]
  /\ waits = [w \in 1..MaxWaiters |-> NoWait]
  /\ cfg \in StepConfigs
  /\ \E n \in {1, 3} :
       /\ stripes = Written(cfg.stripe, n)
       /\ sizeAttr = fileSizeToHex(n)
  /\ inlineBuf = <<>>
  /\ lockers = {}
  /\ now = FILE_LOCK_DURATION
  /\ mLocker = [e \in Instances |-> NoLocker]
  /\ mLockStart = [e \in Instances |-> 0]
  /\ mOperations = [e \in Instances |-> {}]
  /\ marks = [top |-> 0, stop |-> 0, wtop |-> 0]
  /\ calls = 0
  /\ last = NoCall

\* removes of an existing file
NextRemove ==
  \/ \E r \in 1..MaxRuns, e \in Instances : StartRemove(r, e)
  \/ \E r \in 1..MaxRuns : SyncLock(r)
  \/ \E r \in 1..MaxRuns : Sync(r)
  \/ \E r \in 1..MaxRuns : Unlock(r)
  \/ \E r \in 1..MaxRuns : Lock(r)
  \/ \E r \in 1..MaxRuns : RemoveLookup(r)
  \/ \E r \in 1..MaxRuns : AddOp(r)
  \/ \E r \in 1..MaxRuns : Stripe(r)
  \/ \E r \in 1..MaxRuns : Ready(r)
  \/ \E r \in 1..MaxRuns : Wait(r)
  \/ \E c \in inflight : Complete(c)
  \/ Tick

SpecRemove == InitExisting /\ [][NextRemove]_vars

\* the sizes of the truncates of a file of up to PoolSize bytes
TruncateSizes == 0..(PoolSize + 1)

\* an inode that holds 3 or PoolSize bytes written by instances gone since,
\* in stripes of either size on a pool without alignment
InitLong ==
  /\ runs = [r \in 1..MaxRuns |-> NoRun]
  /\ inflight = {}
  /\ sub = NoSub
  /\ opsMutex = [e \in Instances |-> 0]
  /\ waits = [w \in 1..MaxWaiters |-> NoWait]
  /\ cfg \in {c \in Configs : c.cap = 0 /\ ~c.align}
  /\ \E n \in {3, PoolSize} :
       /\ stripes = [k \in 0..MaxStripeIdx |->
                       IF k * cfg.stripe < n
                       THEN [j \in 1..(Min(n, (k + 1) * cfg.stripe)
                                        - k * cfg.stripe) |-> 1]
                       ELSE NoObj]
       /\ sizeAttr = fileSizeToHex(n)
  /\ inlineBuf = <<>>
  /\ lockers = {}
  /\ now = FILE_LOCK_DURATION
  /\ mLocker = [e \in Instances |-> NoLocker]
  /\ mLockStart = [e \in Instances |-> 0]
  /\ mOperations = [e \in Instances |-> {}]
  /\ marks = [top |-> 0, stop |-> 0, wtop |-> 0]
  /\ calls = 0
  /\ last = NoCall

\* truncates of an existing file to every size
NextTruncate ==
  \/ \E r \in 1..MaxRuns, e \in Instances, newSize \in TruncateSizes :
       StartTruncate(r, e, newSize)
  \/ \E r \in 1..MaxRuns : SyncLock(r)
  \/ \E r \in 1..MaxRuns : Sync(r)
  \/ \E r \in 1..MaxRuns : Unlock(r)
  \/ \E r \in 1..MaxRuns : Lock(r)
  \/ \E r \in 1..MaxRuns, currentSize \in Garbage : TruncSetSize(r, currentSize)
  \/ \E r \in 1..MaxRuns : AddOp(r)
  \/ \E r \in 1..MaxRuns : Stripe(r)
  \/ \E r \in 1..MaxRuns : Ready(r)
  \/ \E r \in 1..MaxRuns : Wait(r)
  \/ \E c \in inflight : Complete(c)
  \/ Tick

SpecTruncate == InitLong /\ [][NextTruncate]_vars

\* writers and the idle-lock thread
NextIdle ==
  \/ \E r \in 1..MaxRuns, e \in Instances, buff \in StepPayloads,
        offset \in StepOffsets : StartWrite(r, e, buff, offset)
  \/ \E e \in Instances, idleTimeout \in IdleTimeouts :
       ManageIdle(e, idleTimeout)
  \/ \E r \in 1..MaxRuns : Begin(r)
  \/ \E r \in 1..MaxRuns : Lock(r)
  \/ \E r \in 1..MaxRuns : WriteSetSize(r)
  \/ \E r \in 1..MaxRuns : Stripe(r)
  \/ \E r \in 1..MaxRuns : Ready(r)
  \/ \E r \in 1..MaxRuns : Wait(r)
  \/ \E c \in inflight : Complete(c)
  \/ Tick

SpecIdle == InitSteps /\ [][NextIdle]_vars

\* writers on every configuration of the instance: both stripe sizes, with
\* and without alignment and inline buffer
SpecModes == Init /\ [][NextWriters]_vars

\* asynchronous writes and reads of an inode, and FileInode::sync
NextInode ==
  \/ \E r \in 1..MaxRuns, e \in Instances, buff \in StepPayloads,
        offset \in StepOffsets : StartWrite(r, e, buff, offset)
  \/ \E r \in 1..MaxRuns, e \in Instances, blen \in {Len(b) : b \in StepPayloads},
        offset \in StepOffsets : StartRead(r, e, blen, offset)
  \/ \E w \in 1..MaxWaiters, e \in Instances : StartInodeSync(w, e)
  \/ \E w \in 1..MaxWaiters : SyncOpLock(w)
  \/ \E w \in 1..MaxWaiters : SyncOpWait(w)
  \/ \E r \in 1..MaxRuns : Begin(r)
  \/ \E r \in 1..MaxRuns : SyncLock(r)
  \/ \E r \in 1..MaxRuns : Sync(r)
  \/ \E r \in 1..MaxRuns : Lock(r)
  \/ \E r \in 1..MaxRuns : WriteSetSize(r)
  \/ \E r \in 1..MaxRuns : Stripe(r)
  \/ \E r \in 1..MaxRuns : Ready(r)
  \/ \E r \in 1..MaxRuns : Wait(r)
  \/ \E c \in inflight : Complete(c)
  \/ \E r \in 1..MaxRuns, fill \in FillBytes, oob \in FillBytes :
       DoRead(r, fill, oob)

SpecInode == InitSteps /\ [][NextInode]_vars

\* asynchronous writes, reads, and the threads that wait in sync(opId),
\* within the lease of a lock
NextSync ==
  \/ \E r \in 1..MaxRuns, e \in Instances, buff \in StepPayloads,
        offset \in StepOffsets : StartWrite(r, e, buff, offset)
  \/ \E r \in 1..MaxRuns, e \in Instances, blen \in {Len(b) : b \in StepPayloads},
        offset \in StepOffsets : StartRead(r, e, blen, offset)
  \/ \E w \in 1..MaxWaiters, e \in Instances, id \in 1..MaxRuns :
       StartSyncOp(w, e, id)
  \/ \E w \in 1..MaxWaiters : SyncOpLock(w)
  \/ \E w \in 1..MaxWaiters : SyncOpWait(w)
  \/ \E r \in 1..MaxRuns : Begin(r)
  \/ \E r \in 1..MaxRuns : SyncLock(r)
  \/ \E r \in 1..MaxRuns : Sync(r)
  \/ \E r \in 1..MaxRuns : Lock(r)
  \/ \E r \in 1..MaxRuns : WriteSetSize(r)
  \/ \E r \in 1..MaxRuns : Stripe(r)
  \/ \E r \in 1..MaxRuns : Ready(r)
  \/ \E r \in 1..MaxRuns : Wait(r)
  \/ \E c \in inflight : Complete(c)
  \/ \E r \in 1..MaxRuns, fill \in FillBytes, oob \in FillBytes :
       DoRead(r, fill, oob)

SpecSync == InitSteps /\ [][NextSync]_vars


(***************************************************************************)
(* Properties of the calls made step by step (SpecWriters, SpecSteps).     *)
(***************************************************************************)
\* offset + blen of the write of run r
WriteEnd(r) == runs[r].offset + Len(runs[r].buff)

\* run r is a write that has completed: writeSync returned 0, or the op of
\* an asynchronous write is ready with every completion finalized
WriterDone(r) ==
  /\ runs[r].kind \in {"write", "writeSync"}
  /\ runs[r].pc = "done"
  /\ runs[r].ret = 0

\* the stored file_size as a number
StoredSize(attr) == HexToSize(attr)

\* C5: with two concurrent writers and no truncate or remove, the stored
\* file_size never decreases from one step to the next; a size update the
\* store rejects with canceled leaves it unchanged and the write still
\* returns 0; once both writes have completed the size is the larger of the
\* two ends.
C5_SizeNeverShrinks ==
  /\ [][StoredSize(sizeAttr') >= StoredSize(sizeAttr)]_vars
  /\ [][\A r \in 1..MaxRuns :
          (runs[r].pc = "size" /\ runs'[r].pc = "stripe"
             /\ runs'[r].sz = -ECANCELED) => sizeAttr' = sizeAttr]_vars
  /\ [](\A r \in 1..MaxRuns :
          (runs[r].pc = "done" /\ runs[r].sz = -ECANCELED) => runs[r].ret = 0)
  /\ []((\A r \in 1..MaxRuns : WriterDone(r)) =>
          \E b \in 1..MaxRuns :
            /\ \A a \in 1..MaxRuns : WriteEnd(a) <= WriteEnd(b)
            /\ getSize(stripes, sizeAttr, cfg.stripe) = WriteEnd(b))

\* two writers have completed, the one that grows the size less having
\* asked the store last
C5_Witness ==
  \E a, b \in 1..MaxRuns :
    /\ WriterDone(a) /\ WriterDone(b)
    /\ WriteEnd(a) < WriteEnd(b)
    /\ runs[a].sz = -ECANCELED
    /\ runs[b].sz = 0
    /\ getSize(stripes, sizeAttr, cfg.stripe) = WriteEnd(b)

\* the read of run r lies within the bytes the write of run w wrote, and no
\* other call changes the file
ReadsWhatWrote(r, w) ==
  /\ runs[r].pc = "done"
  /\ runs[r].arg > 0
  /\ runs[w].offset <= runs[r].offset
  /\ runs[r].offset + runs[r].arg <= WriteEnd(w)
  /\ \A q \in 1..MaxRuns : q # w => runs[q].kind \in {"none", "read"}

\* C6: a read called after an asynchronous write returned 0 on the same
\* instance reads no stripe before that write's op is ready and every
\* completion of it is finalized, and it delivers the bytes written.
C6_ReadAfterWrite ==
  \A r \in 1..MaxRuns :
    (runs[r].kind = "read" /\ runs[r].pc \in {"read", "done"}) =>
      \A w \in runs[r].seen :
        /\ runs[w].pc \in {"wait", "done"}
        /\ \A c \in inflight : c.run # w
        /\ ReadsWhatWrote(r, w) =>
             /\ runs[r].ret = runs[r].arg
             /\ runs[r].buf = SubSeq(runs[w].buff,
                                     runs[r].offset - runs[w].offset + 1,
                                     runs[r].offset - runs[w].offset
                                       + runs[r].arg)

\* a read called while an asynchronous write of two stripes was on its way
\* has delivered the bytes of that write
C6_Witness ==
  \E r, w \in 1..MaxRuns :
    /\ runs[r].kind = "read" /\ runs[r].seen = {w}
    /\ runs[w].total > 1
    /\ ReadsWhatWrote(r, w)
    /\ runs[r].ret = Len(runs[w].buff)
    /\ runs[r].buf = runs[w].buff

\* C7: when a write of more than one stripe, a truncate or a remove
\* submits a stripe operation, the store's exclusive lock of the base object
\* is held by that instance (granted by the store and not expired), and no
\* other instance holds the lock.
C7_ExclusiveHeldAtSubmit ==
  sub.excl => (sub.held /\ ~sub.others)

\* C10: every op registered with the op manager becomes ready.  Only the
\* call that registered an op sets it ready, so an op that is not ready when
\* its call has returned stays so, and every later sync() waits for ever.
C10_RegisteredOpsGetReady ==
  \A e \in Instances : \A o \in mOperations[e] :
    runs[o.id].pc = "done" => o.ready

\* C11: a write, writeSync or truncate that parameter validation rejects
\* (-EINVAL or -EFBIG) leaves everything unchanged: no op is registered with
\* the op manager, no lock is taken, no update of the mtime is scheduled and
\* no store object is modified.
C11_RejectedLeavesAll ==
  [][\A r \in 1..MaxRuns :
       (/\ runs[r].kind = "none"
        /\ runs'[r].kind \in {"write", "writeSync", "truncate"}
        /\ runs'[r].ret \in {-EINVAL, -EFBIG})
       => /\ mOperations' = mOperations
          /\ lockers' = lockers /\ mLocker' = mLocker
          /\ ~runs'[r].mtime
          /\ stripes' = stripes /\ sizeAttr' = sizeAttr
          /\ inlineBuf' = inlineBuf]_vars


(***************************************************************************)
(* Properties of the destruction of an instance (SpecTeardown).            *)
(***************************************************************************)
\* the destructor of run r has got past its mOpManager.sync()
PastSync(r) ==
  /\ runs[r].dtor
  /\ ~(runs[r].kind = "destroy" /\ runs[r].pc \in {"sync", "syncwait"})

\* an op of instance e other than that of run r is in flight: its call has
\* not set it ready yet, or a completion of it is not finalized
InFlightOf(e, r) ==
  \E q \in 1..MaxRuns \ {r} :
    /\ runs[q].inst = e
    /\ \/ runs[q].pc \notin {"none", "wait", "done"}
       \/ \E c \in inflight : c.run = q

\* C13: the destruction of an instance first waits until every registered
\* op is ready and all its completions are finalized; from then on, while
\* it releases the two lock cookies (mLazyRemoval unset) or removes the
\* stripes 0..lastStripe (mLazyRemoval set), no op of that instance is in
\* flight.  After a destruction without lazy removal the instance holds
\* neither cookie; after one with lazy removal that returned 0, on a file no
\* other instance has used, every stripe has been removed and the size with
\* them (the lock remove() takes again within its loop may have created the
\* base object anew, empty).
C13_DestroyWaitsThenReleases ==
  \A r \in 1..MaxRuns :
    /\ PastSync(r) =>
         /\ ~InFlightOf(runs[r].inst, r)
         /\ \A q \in runs[r].seen : \A c \in inflight : c.run # q
    /\ (runs[r].dtor /\ runs[r].kind = "destroy" /\ runs[r].pc = "done") =>
         \A l \in lockers : l.inst # runs[r].inst
    /\ (/\ runs[r].dtor /\ runs[r].kind = "remove" /\ runs[r].pc = "done"
        /\ runs[r].ret = 0
        /\ \A q \in 1..MaxRuns :
             runs[q].kind # "none" => runs[q].inst = runs[r].inst) =>
         /\ \A k \in DOMAIN stripes :
              stripes[k] = NoObj \/ (k = 0 /\ stripes[k] = <<>>)
         /\ sizeAttr = <<>>

\* an instance has been destroyed, without lazy removal, while an
\* asynchronous write of its own that reached the stripes was not complete
C13_Witness ==
  \E r \in 1..MaxRuns :
    /\ runs[r].dtor /\ runs[r].kind = "destroy" /\ runs[r].pc = "done"
    /\ \E q \in runs[r].seen : runs[q].total >= 1 /\ runs[q].pc = "done"


(***************************************************************************)
(* Properties of the threads that wait for ops (SpecSync).                 *)
(***************************************************************************)
\* a thread is blocked in sync() or sync(opId) of instance e: an op it
\* waits for is not ready, or has a completion that is not finalized
Blocked(e) ==
  \/ \E r \in 1..MaxRuns :
       runs[r].inst = e /\ runs[r].pc = "syncwait" /\ ~SyncReturns(e)
  \/ \E w \in 1..MaxWaiters :
       /\ waits[w].inst = e /\ waits[w].pc = "wait"
       /\ \E o \in mOperations[e] :
            o.id = waits[w].id /\ ~(o.ready /\ o.pending = 0)

\* C14: a thread blocked in sync() or sync(opId), waiting for an op to be
\* ready or for its completions, does not hold the op manager's mutex, so
\* that the addOperation of a concurrent write on the same instance is not
\* delayed until the wait ends.
C14_WaitReleasesMutex ==
  \A e \in Instances : Blocked(e) => opsMutex[e] = 0

\* C15: when several threads wait for the same registered op (sync(opId)
\* together with another sync(opId) or with sync()), each of them returns
\* the final status of the op, and none returns -ENOENT for an op that was
\* registered when it began to wait.
C15_WaitersSeeStatus ==
  \A w \in 1..MaxWaiters :
    (waits[w].pc = "done" /\ waits[w].seen) =>
      /\ waits[w].ret # -ENOENT
      /\ waits[w].ret = runs[waits[w].id].status


(***************************************************************************)
(* Properties of remove on an existing file (SpecRemove).                  *)
(***************************************************************************)
\* C21: remove() on an existing file followed by a second remove() on the
\* same inode: the first submits the removal of every stripe 0..lastStripe
\* in ascending order, leaves no stripe object, the base object included,
\* and returns 0; the second returns -ENOENT and submits no removal.
C21_RemoveTwice ==
  /\ (runs[1].kind = "remove" /\ runs[1].pc = "done"
        /\ runs[2].kind = "none") =>
       /\ runs[1].ret = 0
       /\ runs[1].i = runs[1].total
       /\ \A k \in DOMAIN stripes : stripes[k] = NoObj
  /\ \A r \in 1..MaxRuns :
       (runs[r].kind = "remove" /\ runs[r].pc = "done"
          /\ runs[r].seen # {}) =>
         /\ runs[r].ret = -ENOENT
         /\ runs[r].total = 0


(***************************************************************************)
(* Properties of the lease and of the idle-lock thread (SpecIdle).         *)
(***************************************************************************)
\* run r has taken the lock and has not yet left syncAndResetLocker
HoldsLease(r) ==
  /\ runs[r].kind \in {"write", "writeSync", "truncate", "remove"}
  /\ runs[r].pc \in {"size", "addop", "stripe", "ready", "wait"}

\* C23: from the moment a write, truncate or remove takes the lock until
\* its own syncAndResetLocker, mLocker stays non-empty under every
\* interleaving of the operations of the instance, so that manageIdleLock
\* never releases the lock cookies while a stripe operation of the instance
\* is in flight.
C23_HolderKept ==
  /\ [](\A r \in 1..MaxRuns :
          HoldsLease(r) => mLocker[runs[r].inst] # NoLocker)
  /\ [][\A e \in Instances :
          (/\ runs' = runs /\ inflight' = inflight
           /\ \E l \in lockers \ lockers' : l.inst = e)
          => ~\E c \in inflight : c.inst = e]_vars


(***************************************************************************)
(* Properties of the lock mode of a write (SpecModes).                     *)
(***************************************************************************)
\* the step is a lockShared/lockExclusive of run r: the one before the size
\* update, or the one before a stripe submission
LocksNow(r) ==
  \/ runs[r].pc = "lock" /\ runs'[r].pc = "size"
  \/ runs[r].pc = "stripe" /\ runs'[r].i # runs[r].i

\* C24: realWrite takes the exclusive lock exactly when the part of the
\* write that goes to the stripes, after the inline buffer took its prefix,
\* touches more than one stripe, and the shared lock when it touches one;
\* it asserts the same mode with the same op id before each stripe
\* submission; and an assertion with mLocker equal to the op id inside a
\* fresh lease makes no store call and changes no lock state.
C24_LockModeOfWrite ==
  [][\A r \in 1..MaxRuns :
       LocksNow(r) =>
         LET e    == runs[r].inst
             excl == TotalStripes(cfg.stripe, runs[r].offset,
                                  Len(runs[r].buff)) > 1
         IN  /\ mLocker'[e] = r
             /\ \A l \in lockers' \ lockers :
                  l.inst = e /\ l.cookie = IF excl THEN "other" ELSE "write"
             /\ runs[r].pc = "stripe" => sub'.run = r /\ sub'.excl = excl
             /\ (mLocker[e] = r /\ now - mLockStart[e] < FILE_LOCK_DURATION - 1)
                  => /\ lockers' = lockers
                     /\ mLocker' = mLocker
                     /\ mLockStart' = mLockStart
                     /\ stripes' = stripes]_vars

\* a write of more than one stripe has submitted them all under the one
\* exclusive lock it took from the store, and holds the lease
C24_Witness ==
  \E r \in 1..MaxRuns :
    /\ runs[r].kind \in {"write", "writeSync"}
    /\ runs[r].total > 1
    /\ runs[r].pc = "ready"
    /\ mLocker[runs[r].inst] = r
    /\ \E l \in lockers :
         /\ l.inst = runs[r].inst /\ l.cookie = "other"
         /\ l.exp = mLockStart[runs[r].inst] + FILE_LOCK_DURATION
    /\ \A l \in lockers : l.inst = runs[r].inst

\* an instance has no cookie among lks
NoCookie(lks, e) == \A l \in lks : l.inst # e

\* C25: manageIdleLock(idleTimeout) releases both lock cookies only when
\* mLockMutex is free, mLocker is empty and
\* idleTimeout <= now - mLockStart <= FILE_LOCK_DURATION, and changes
\* nothing in every other case; after it has released, mLockStart lies more
\* than FILE_LOCK_DURATION in the past, so that a manageIdleLock repeated at
\* once does nothing and the next lockShared/lockExclusive asks the store.
C25_ManageIdleReleases ==
  /\ [](\A e \in Instances, idleTimeout \in IdleTimeouts, free \in BOOLEAN :
          LET seconds == now - mLockStart[e]
              m    == manageIdleLock(e, idleTimeout, free, mLocker[e],
                                     mLockStart[e], lockers, now)
              cond == /\ free /\ mLocker[e] = NoLocker
                      /\ idleTimeout <= seconds
                      /\ seconds <= FILE_LOCK_DURATION
          IN  /\ m.released = cond
              /\ ~cond => /\ m.lockers = lockers
                          /\ m.mLocker = mLocker[e]
                          /\ m.mLockStart = mLockStart[e]
              /\ cond => /\ NoCookie(m.lockers, e)
                         /\ \A l \in lockers : l.inst # e => l \in m.lockers
                         /\ now - m.mLockStart > FILE_LOCK_DURATION
                         /\ \A again \in IdleTimeouts :
                              ~manageIdleLock(e, again, TRUE, m.mLocker,
                                              m.mLockStart, m.lockers,
                                              now).released
                         /\ \A uuid \in 1..MaxRuns :
                              ~keepLock(uuid, m.mLocker, m.mLockStart, now))
  /\ [][\A e \in Instances :
          (/\ runs' = runs /\ inflight' = inflight /\ now' = now
           /\ \/ mLocker'[e] # mLocker[e]
              \/ mLockStart'[e] # mLockStart[e]
              \/ \E l \in lockers \ lockers' : l.inst = e)
          => /\ ~LockMutexHeld(e)
             /\ mLocker[e] = NoLocker
             /\ now - mLockStart[e] <= FILE_LOCK_DURATION
             /\ \E idleTimeout \in IdleTimeouts :
                  idleTimeout <= now - mLockStart[e]
             /\ NoCookie(lockers', e)
             /\ now - mLockStart'[e] > FILE_LOCK_DURATION]_vars

\* the idle-lock thread has just released the lock of an instance whose
\* write had taken it from the store
C25_Witness ==
  \E e \in Instances :
    /\ mLocker[e] = NoLocker
    /\ now - mLockStart[e] = FILE_LOCK_DURATION + 1
    /\ NoCookie(lockers, e)
    /\ \E r \in 1..MaxRuns :
         /\ runs[r].inst = e /\ runs[r].pc = "done" /\ runs[r].total >= 1
         /\ now = FILE_LOCK_DURATION

\* C27: for every newSize and stripe size, truncate uses newLastStripe =
\* (newSize - 1) / stripeSize (0 when newSize = 0) and the condition of the
\* assignment newLastStripe = stripeSize() is never true; a truncate that
\* shrinks the file counts the stripes newLastStripe..lastStripe, and every
\* stripe operation it issues goes to stripe newLastStripe + i with i
\* counting down to 0: removals above newLastStripe from the highest index
\* down, then the operation on newLastStripe itself.
C27_TruncateStripeRange ==
  /\ \A s \in 1..(PoolSize + 1), newSize \in 0..PoolSize :
       LET newLastStripe == IF newSize = 0 THEN 0 ELSE (newSize - 1) \div s
       IN  /\ ~(newLastStripe = 0 /\ newSize > s)
           /\ truncateNewLastStripe(s, newSize) = newLastStripe
  /\ [][\A r \in 1..MaxRuns :
          runs[r].kind = "truncate" =>
            LET run == runs[r]
                newSize == run.arg
                size == getSize(stripes, sizeAttr, cfg.stripe)
                newLastStripe == IF newSize = 0 THEN 0
                                 ELSE (newSize - 1) \div cfg.stripe
            IN  /\ (run.pc = "size" /\ runs'[r].pc = "addop") =>
                     /\ runs'[r].first = newLastStripe
                     /\ size > newSize =>
                          /\ runs'[r].first + runs'[r].total - 1 =
                               LastStripeOf(size)
                          /\ runs'[r].i = runs'[r].total - 1
                /\ (run.pc = "stripe" /\ runs'[r].i # run.i) =>
                     /\ run.first = newLastStripe
                     /\ run.i \in 0..(run.total - 1)
                     /\ runs'[r].i = run.i - 1
                     /\ \E op \in inflight' :
                          /\ inflight' = inflight \cup {op}
                          /\ op.run = r
                          /\ op.what = "truncate"
                          /\ op.stripe = newLastStripe + run.i
                          /\ op.i = run.i
                     /\ runs'[r].pc = IF run.i = 0 THEN "ready"
                                      ELSE "stripe"]_vars

\* a truncate that shrank a file of three stripes to two has issued the
\* removal of stripe 2 and the operation on stripe 1
C27_Witness ==
  \E r \in 1..MaxRuns :
    /\ runs[r].kind = "truncate" /\ runs[r].pc = "ready"
    /\ runs[r].first = 1 /\ runs[r].total = 2 /\ runs[r].i = -1
    /\ \E op \in inflight : op.run = r /\ op.stripe = 1 /\ op.i = 0

(***************************************************************************)
(* Properties of FileInode::sync (SpecInode).                              *)
(***************************************************************************)
\* C28: FileInode::sync returns 0 when every asynchronous write issued
\* through the inode since the previous sync completed successfully, also
\* when a read on the inode retired the ops in between, and a non-zero
\* status when any of those writes failed, not only the last of them.
C28_InodeSyncStatus ==
  \A w \in 1..MaxWaiters :
    (waits[w].all # {} /\ waits[w].pc = "done") =>
      LET failed == {r \in waits[w].all :
                       runs[r].ret # 0 \/ runs[r].status # 0}
      IN  waits[w].ret = 0 <=> failed = {}

(***************************************************************************)
(* realWrite and the destructor (SpecTeardown).                            *)
(***************************************************************************)
\* C29: when the destructor's sync of the outstanding ops has returned, no
\* realWrite task of the instance has a step left that touches the
\* instance (mLockMutex, mLocker, the copied buffer): an asynchronous write
\* makes its op ready only after its last access to the instance.
C29_NoWriteStepLeft ==
  \A r \in 1..MaxRuns :
    PastSync(r) =>
      \A q \in 1..MaxRuns \ {r} :
        (runs[q].kind = "write" /\ runs[q].inst = runs[r].inst) =>
          runs[q].pc = "done"

=============================================================================
